---- MODULE Spec2Model ----
(***************************************************************************)
(* A model of the aggregation-and-generation pipeline of the case study    *)
(* generation API: the user's credential store (models/user.py), the token *)
(* refresh service (services/token_refresh_service.py), the unified data   *)
(* service (services/data_service.py), the email selection and the         *)
(* streaming engine (services/llm_service.py) and the two generation       *)
(* routes (routers/case_study_router.py).                                  *)
(*                                                                         *)
(* Python's None is the empty set and a present value x is {x}, so that an *)
(* Optional field is a set with at most one element.  Time is in minutes.  *)
(***************************************************************************)
EXTENDS Integers, Sequences, FiniteSets, TLC

None == {}
Some(x) == {x}
The(o) == CHOOSE x \in o : TRUE

Range(f) == {f[i] : i \in DOMAIN f}

(***************************************************************************)
(* Bounds of the model.                                                    *)
(***************************************************************************)
MaxNow == 1        \* the clock stops advancing here
MaxTokens == 2     \* access tokens the identity provider issues in a run
MaxRaceTokens == 3 \* the same, where requests run side by side

(***************************************************************************)
(* Program constants.                                                      *)
(***************************************************************************)
buffer_minutes == 5

\* Lifetimes (minutes) the identity provider may give a token it issues:
\* a minute more than the 5-minute buffer.
ProviderLifetimes == {6}

\* Service names a user record may hold credentials or connection data for.
\* gmail and drive have flat columns; confluence is registered in the service
\* registry; slack is a ServiceType without a registered connector; wiki is
\* no ServiceType at all.
LegacyServices == {"gmail", "drive"}
ServiceNames == {"gmail", "drive", "confluence", "slack", "wiki"}
\* The services whose generic credentials the token specification sets.
TokServices == {"confluence"}

VARIABLES
    \* --- credential store and token refresh service
    now,        \* datetime.utcnow(), minutes
    user,       \* the User object held by the session
    db,         \* the user's row as committed
    nextTok,    \* the next access token the identity provider issues
    last,       \* what the last operation did (a history variable)
    \* --- a streaming generation request next to other requests
    streamPc,   \* where the streaming request is: idle, clean or dirty
    basis,      \* basis[k]: the access token that token k was refreshed from
    \* --- unified data service (aggregation)
    aggPc,      \* idle, loop or done
    aggIn,      \* the inputs of the running call
    aggQueue,   \* the connected services the loop has still to process
    result,     \* the result dict being built
    raised,     \* an exception left fetch_all_project_data
    aggLog,     \* what happened to each service (a history variable)
    calls,      \* the refresh and fetch calls of the run (a history variable)
    \* --- streaming engine and generation routes
    genPc,      \* idle, pending, engine, finish or done
    route,      \* none, stream or background
    job,        \* the CaseStudy object of the session
    dbStatus,   \* the statuses committed to the job's row, oldest first
    backend,    \* what the model backend has produced so far
    engine,     \* accumulated_content and current_section of the engine
    events,     \* the chunks the engine has yielded, then the route's events
    polled,     \* the status the progress poller has sent last
    \* --- email selection
    emails, max_emails, project_date_range, selected,
    again,      \* a second call with the same arguments, and when it ran
    \* --- user repository
    users,      \* the rows of the user table, oldest first
    repoLast,   \* the last call of the repository (a history variable)
    \* --- the streaming route pulling the engine, chunk by chunk
    pipe        \* where route, engine and consumer are, and what has passed

tokVars == <<now, user, db, nextTok, last>>
raceVars == <<streamPc, basis>>
aggVars == <<aggPc, aggIn, aggQueue, result, raised, aggLog, calls>>
genVars == <<genPc, route, job, dbStatus, backend, engine, events, polled>>
selVars == <<emails, max_emails, project_date_range, selected, again>>
repoVars == <<users, repoLast>>
pipeVars == <<pipe>>
vars == <<tokVars, raceVars, aggVars, genVars, selVars, repoVars, pipeVars>>

(***************************************************************************)
(* models/user.py                                                          *)
(***************************************************************************)
NewUser ==
    [gmail_access_token |-> None, gmail_refresh_token |-> None,
     gmail_token_expires_at |-> None, gmail_connected_at |-> None,
     drive_access_token |-> None, drive_refresh_token |-> None,
     drive_token_expires_at |-> None, drive_connected_at |-> None,
     service_credentials |-> <<>>, service_connections |-> <<>>]

\* dict.get(key): the entry of an insertion-ordered dict, or None.
DictGet(d, k) ==
    IF \E i \in DOMAIN d : d[i].service = k
    THEN Some(d[CHOOSE i \in DOMAIN d : d[i].service = k])
    ELSE None

\* d[key] = entry: an existing key keeps its place, a new one goes last.
DictSet(d, e) ==
    IF \E i \in DOMAIN d : d[i].service = e.service
    THEN [i \in DOMAIN d |-> IF d[i].service = e.service THEN e ELSE d[i]]
    ELSE Append(d, e)

DictKeys(d) == [i \in DOMAIN d |-> d[i].service]

is_gmail_connected(u) ==
    /\ u.gmail_access_token # None
    /\ u.gmail_refresh_token # None
    /\ u.gmail_connected_at # None

is_drive_connected(u) ==
    /\ u.drive_access_token # None
    /\ u.drive_refresh_token # None
    /\ u.drive_connected_at # None

\* The credentials dict of a service, or None; the flat columns are read only
\* while the generic map is empty.
get_service_credentials(u, s) ==
    IF u.service_credentials = <<>>
    THEN IF s = "gmail"
         THEN IF u.gmail_access_token # None
              THEN Some([service |-> "gmail",
                         access_token |-> u.gmail_access_token,
                         refresh_token |-> u.gmail_refresh_token,
                         expires_at |-> u.gmail_token_expires_at])
              ELSE None
         ELSE IF s = "drive"
         THEN IF u.drive_access_token # None
              THEN Some([service |-> "drive",
                         access_token |-> u.drive_access_token,
                         refresh_token |-> u.drive_refresh_token,
                         expires_at |-> u.drive_token_expires_at])
              ELSE None
         ELSE None
    ELSE DictGet(u.service_credentials, s)

set_service_credentials(u, c) ==
    LET m == [u EXCEPT !.service_credentials = DictSet(u.service_credentials, c)]
    IN  IF c.service = "gmail"
        THEN [m EXCEPT !.gmail_access_token = c.access_token,
                       !.gmail_refresh_token = c.refresh_token,
                       !.gmail_token_expires_at = c.expires_at]
        ELSE IF c.service = "drive"
        THEN [m EXCEPT !.drive_access_token = c.access_token,
                       !.drive_refresh_token = c.refresh_token,
                       !.drive_token_expires_at = c.expires_at]
        ELSE m

get_service_connection_info(u, s) ==
    IF u.service_connections = <<>>
    THEN IF s = "gmail"
         THEN IF u.gmail_connected_at # None
              THEN Some([service |-> "gmail", connected_at |-> u.gmail_connected_at])
              ELSE None
         ELSE IF s = "drive"
         THEN IF u.drive_connected_at # None
              THEN Some([service |-> "drive", connected_at |-> u.drive_connected_at])
              ELSE None
         ELSE None
    ELSE DictGet(u.service_connections, s)

set_service_connection_info(u, c) ==
    LET m == [u EXCEPT !.service_connections = DictSet(u.service_connections, c)]
    IN  IF c.service = "gmail"
        THEN [m EXCEPT !.gmail_connected_at = c.connected_at]
        ELSE IF c.service = "drive"
        THEN [m EXCEPT !.drive_connected_at = c.connected_at]
        ELSE m

is_service_connected(u, s) ==
    LET credentials == get_service_credentials(u, s)
        connection_info == get_service_connection_info(u, s)
    IN  /\ credentials # None
        /\ The(credentials).access_token # None
        /\ connection_info # None
        /\ The(connection_info).connected_at # None

\* datetime.utcnow() >= expires_at, and True when there is no expires_at.
is_service_token_expired(u, s, t) ==
    LET credentials == get_service_credentials(u, s)
    IN  IF credentials = None \/ The(credentials).expires_at = None
        THEN TRUE
        ELSE t >= The(The(credentials).expires_at)

RECURSIVE NewServices(_, _, _)
\* The loop over service_connections.keys() of get_connected_services.
NewServices(u, keys, connected) ==
    IF keys = <<>> THEN connected
    ELSE LET s == Head(keys)
         IN  NewServices(u, Tail(keys),
                 IF is_service_connected(u, s) /\ s \notin Range(connected)
                 THEN Append(connected, s)
                 ELSE connected)

get_connected_services(u) ==
    LET a == IF is_gmail_connected(u) THEN <<"gmail">> ELSE <<>>
        b == IF is_drive_connected(u) THEN Append(a, "drive") ELSE a
    IN  NewServices(u, DictKeys(u.service_connections), b)

(***************************************************************************)
(* services/token_refresh_service.py                                       *)
(***************************************************************************)
LegacyConnected(u, s) ==
    IF s = "gmail" THEN is_gmail_connected(u) ELSE is_drive_connected(u)

LegacyAccess(u, s) ==
    IF s = "gmail" THEN u.gmail_access_token ELSE u.drive_access_token

LegacyRefresh(u, s) ==
    IF s = "gmail" THEN u.gmail_refresh_token ELSE u.drive_refresh_token

LegacyExpires(u, s) ==
    IF s = "gmail" THEN u.gmail_token_expires_at ELSE u.drive_token_expires_at

\* The expiry check without the safety buffer.
expired_without_buffer(expires_at, t) ==
    IF expires_at = None THEN TRUE
    ELSE t >= The(expires_at)

\* now >= expires_at - timedelta(minutes=buffer_minutes); no expiry: refresh.
\* (The name in the source starts with an underscore.)
is_token_expired_or_expiring_soon(expires_at, t) ==
    IF expires_at = None THEN TRUE
    ELSE t >= The(expires_at) - buffer_minutes

\* "Update user tokens": the token always, the expiry when the refreshed
\* credentials carry one.
UpdateUserTokens(u, s, token, expiry) ==
    IF s = "gmail"
    THEN [u EXCEPT !.gmail_access_token = Some(token),
                   !.gmail_token_expires_at =
                       IF expiry # None THEN expiry ELSE u.gmail_token_expires_at]
    ELSE [u EXCEPT !.drive_access_token = Some(token),
                   !.drive_token_expires_at =
                       IF expiry # None THEN expiry ELSE u.drive_token_expires_at]

\* What the calls inside the try block may do.  refresh_raises: the identity
\* provider refuses.  flush_raises: session.commit() fails while flushing, the
\* session rolls back and the object is loaded again from the row.
\* commit_raises: session.commit() fails after the flush, the object keeps
\* what was assigned.  reload_raises: the commit succeeded and
\* session.refresh(user) fails.
RefreshOutcomes ==
    {"ok", "refresh_raises", "flush_raises", "commit_raises", "reload_raises"}

\* refresh_gmail_token / refresh_drive_token on the session's user: the user
\* object and the row afterwards, the value returned, the number of calls of
\* credentials.refresh and the tokens the provider issued.
refresh_token_step(u, d, t, s, outcome, token, expiry) ==
    IF ~LegacyConnected(u, s)
    THEN [user |-> u, db |-> d, ret |-> FALSE, calls |-> 0, issued |-> 0]
    ELSE IF ~is_token_expired_or_expiring_soon(LegacyExpires(u, s), t)
    THEN [user |-> u, db |-> d, ret |-> TRUE, calls |-> 0, issued |-> 0]
    ELSE LET m == UpdateUserTokens(u, s, token, expiry)
         IN  CASE outcome = "refresh_raises" ->
                    [user |-> u, db |-> d, ret |-> FALSE, calls |-> 1, issued |-> 0]
               [] outcome = "flush_raises" ->
                    [user |-> d, db |-> d, ret |-> FALSE, calls |-> 1, issued |-> 1]
               [] outcome = "commit_raises" ->
                    [user |-> m, db |-> d, ret |-> FALSE, calls |-> 1, issued |-> 1]
               [] outcome = "reload_raises" ->
                    [user |-> m, db |-> m, ret |-> FALSE, calls |-> 1, issued |-> 1]
               [] OTHER ->
                    [user |-> m, db |-> m, ret |-> TRUE, calls |-> 1, issued |-> 1]

\* The expiry of a token the provider issues at time t: none, or t + lifetime.
ProviderExpiries(t) == {None} \cup {Some(t + l) : l \in ProviderLifetimes}

NoLast ==
    [op |-> "none", svc |-> "none", ret |-> FALSE, calls |-> 0,
     outcome |-> "none", expiry |-> None, token |-> 0, results |-> {}]

\* routers/auth_router.py google_callback: the tokens of the login are stored
\* for gmail and for drive, and committed.
google_callback ==
    /\ nextTok <= MaxTokens
    /\ \E expiry \in ProviderExpiries(now) :
         LET m == [user EXCEPT
                     !.gmail_access_token = Some(nextTok),
                     !.gmail_refresh_token = Some(1),
                     !.gmail_token_expires_at = expiry,
                     !.gmail_connected_at = Some(now),
                     !.drive_access_token = Some(nextTok),
                     !.drive_refresh_token = Some(1),
                     !.drive_token_expires_at = expiry,
                     !.drive_connected_at = Some(now)]
         IN  /\ user' = m
             /\ db' = m
             /\ last' = [NoLast EXCEPT !.op = "login"]
    /\ nextTok' = nextTok + 1
    /\ UNCHANGED now

\* routers/auth_router.py disconnect_service.
Disconnect(s) ==
    /\ s \in LegacyServices
    /\ LET m == IF s = "gmail"
                THEN [user EXCEPT !.gmail_access_token = None,
                                  !.gmail_refresh_token = None,
                                  !.gmail_token_expires_at = None,
                                  !.gmail_connected_at = None]
                ELSE [user EXCEPT !.drive_access_token = None,
                                  !.drive_refresh_token = None,
                                  !.drive_token_expires_at = None,
                                  !.drive_connected_at = None]
       IN  /\ user' = m
           /\ db' = m
    /\ last' = [NoLast EXCEPT !.op = "disconnect", !.svc = s]
    /\ UNCHANGED <<now, nextTok>>
    /\ UNCHANGED <<raceVars, aggVars, genVars, selVars, repoVars, pipeVars>>

\* User.set_service_credentials, called on the session's object.
CallSetServiceCredentials(s) ==
    /\ s \in ServiceNames
    /\ user' = set_service_credentials(user,
                  [service |-> s, access_token |-> Some(1),
                   refresh_token |-> Some(1), expires_at |-> Some(60)])
    /\ user' # user
    /\ last' = [NoLast EXCEPT !.op = "set_credentials", !.svc = s]
    /\ UNCHANGED <<now, db, nextTok>>

\* User.set_service_credentials with credentials that hold an access token
\* and no refresh token.
CallSetAccessTokenOnly(s) ==
    /\ s \in ServiceNames
    /\ user' = set_service_credentials(user,
                  [service |-> s, access_token |-> Some(1),
                   refresh_token |-> None, expires_at |-> Some(60)])
    /\ user' # user
    /\ last' = [NoLast EXCEPT !.op = "set_credentials", !.svc = s]
    /\ UNCHANGED <<now, db, nextTok>>

\* User.set_service_connection_info, called on the session's object.
CallSetServiceConnectionInfo(s) ==
    /\ s \in ServiceNames
    /\ user' = set_service_connection_info(user,
                  [service |-> s, connected_at |-> Some(0)])
    /\ user' # user
    /\ last' = [NoLast EXCEPT !.op = "set_connection", !.svc = s]
    /\ UNCHANGED <<now, db, nextTok>>

\* The inputs of one refresh that can make a difference: the outcome of the
\* try block when the token is refreshed at all, the expiry when a token is
\* issued.
OutcomesFor(u, s, t) ==
    IF LegacyConnected(u, s) /\ is_token_expired_or_expiring_soon(LegacyExpires(u, s), t)
    THEN RefreshOutcomes
    ELSE {"none"}

ExpiriesFor(outcome, t) ==
    IF outcome \in {"none", "refresh_raises"} THEN {None} ELSE ProviderExpiries(t)

\* TokenRefreshService.refresh_gmail_token / refresh_drive_token (ensure_valid).
RefreshToken(s) ==
    /\ s \in LegacyServices
    /\ \E outcome \in OutcomesFor(user, s, now) :
       \E expiry \in ExpiriesFor(outcome, now) :
         LET r == refresh_token_step(user, db, now, s, outcome, nextTok, expiry)
         IN  /\ nextTok + r.issued <= MaxTokens + 1
             /\ user' = r.user
             /\ db' = r.db
             /\ nextTok' = nextTok + r.issued
             /\ last' = [NoLast EXCEPT
                           !.op = "ensure_valid", !.svc = s, !.ret = r.ret,
                           !.calls = r.calls, !.outcome = outcome,
                           !.expiry = expiry,
                           !.token = IF r.issued = 0 THEN 0 ELSE nextTok]
    /\ UNCHANGED now
    /\ UNCHANGED <<raceVars, aggVars, genVars, selVars, repoVars, pipeVars>>

\* TokenRefreshService.refresh_all_user_tokens (ensure_all): gmail, then drive.
refresh_all_user_tokens(u, d, t, og, od, token, eg, ed) ==
    LET g == IF is_gmail_connected(u)
             THEN refresh_token_step(u, d, t, "gmail", og, token, eg)
             ELSE [user |-> u, db |-> d, ret |-> FALSE, calls |-> 0, issued |-> 0]
        rg == IF is_gmail_connected(u) THEN {<<"gmail", g.ret>>} ELSE {}
        dr == IF is_drive_connected(g.user)
              THEN refresh_token_step(g.user, g.db, t, "drive", od,
                                      token + g.issued, ed)
              ELSE [user |-> g.user, db |-> g.db, ret |-> FALSE, calls |-> 0,
                    issued |-> 0]
        rd == IF is_drive_connected(g.user) THEN {<<"drive", dr.ret>>} ELSE {}
    IN  [user |-> dr.user, db |-> dr.db, results |-> rg \cup rd,
         calls |-> g.calls + dr.calls, issued |-> g.issued + dr.issued]

RefreshAll ==
    \E og \in OutcomesFor(user, "gmail", now) :
    \E eg \in ExpiriesFor(og, now) :
      LET g == refresh_token_step(user, db, now, "gmail", og, nextTok, eg)
      IN  \E od \in OutcomesFor(g.user, "drive", now) :
          \E ed \in ExpiriesFor(od, now) :
            LET r == refresh_all_user_tokens(user, db, now, og, od, nextTok, eg, ed)
            IN  /\ nextTok + r.issued <= MaxTokens + 1
                /\ user' = r.user
                /\ db' = r.db
                /\ nextTok' = nextTok + r.issued
                /\ last' = [NoLast EXCEPT
                              !.op = "ensure_all", !.calls = r.calls,
                              !.results = r.results]
                /\ UNCHANGED now
    /\ UNCHANGED <<raceVars, aggVars, genVars, selVars, repoVars, pipeVars>>

\* Time passes.
ClockAdvance ==
    /\ now < MaxNow
    /\ now' = now + 1
    /\ UNCHANGED <<user, db, nextTok, last>>

SetServiceCredentials(s) ==
    /\ CallSetServiceCredentials(s)
    /\ UNCHANGED <<raceVars, aggVars, genVars, selVars, repoVars, pipeVars>>

SetServiceConnectionInfo(s) ==
    /\ CallSetServiceConnectionInfo(s)
    /\ UNCHANGED <<raceVars, aggVars, genVars, selVars, repoVars, pipeVars>>

Login ==
    /\ google_callback
    /\ UNCHANGED <<raceVars, aggVars, genVars, selVars, repoVars, pipeVars>>

Tick ==
    /\ ClockAdvance
    /\ UNCHANGED <<raceVars, aggVars, genVars, selVars, repoVars, pipeVars>>

TokNext ==
    \/ Login
    \/ \E s \in LegacyServices : Disconnect(s)
    \/ \E s \in TokServices : SetServiceCredentials(s)
    \/ \E s \in TokServices : SetServiceConnectionInfo(s)
    \/ \E s \in LegacyServices : RefreshToken(s)
    \/ RefreshAll
    \/ Tick

(***************************************************************************)
(* A streaming generation request beside other requests.  The process is   *)
(* one event loop: a handler runs without interruption up to its next      *)
(* await.  The streaming route loads the user, creates the Gmail connector *)
(* (which refreshes an expired token on the object only) and commits the   *)
(* session when the stream has ended; the requests of routers/data_router  *)
(* and the background generation task load, refresh and commit in one go.  *)
(***************************************************************************)
\* GmailServiceV2._initialize_service with refresh_credentials on user u.
initialize_service(u, t, outcome, token, expiry) ==
    IF ~is_service_connected(u, "gmail") THEN u
    ELSE LET credentials == The(get_service_credentials(u, "gmail"))
         IN  IF ~is_service_token_expired(u, "gmail", t) THEN u
             ELSE IF credentials.refresh_token = None THEN u
             ELSE IF outcome = "refresh_raises" THEN u
             ELSE set_service_credentials(u,
                     [service |-> "gmail", access_token |-> Some(token),
                      refresh_token |-> credentials.refresh_token,
                      expires_at |-> expiry])

\* _initialize_service calls refresh_credentials.
connector_refreshes(u, t) ==
    /\ is_service_connected(u, "gmail")
    /\ is_service_token_expired(u, "gmail", t)

\* The outcomes of the connector's refresh that can make a difference.
ConnectorOutcomes(u, t) ==
    IF /\ is_service_connected(u, "gmail")
       /\ is_service_token_expired(u, "gmail", t)
       /\ The(get_service_credentials(u, "gmail")).refresh_token # None
    THEN {"ok", "refresh_raises"}
    ELSE {"none"}

\* google_callback while no stream is open.
RaceLogin ==
    /\ streamPc = "idle"
    /\ google_callback
    /\ basis' = Append(basis, 0)
    /\ UNCHANGED streamPc
    /\ UNCHANGED <<aggVars, genVars, selVars, repoVars, pipeVars>>

\* routers/data_router.py fetch_gmail_data: the user is loaded, checked and
\* refreshed by the token refresh service before the handler awaits.
DataRouterRefresh ==
    /\ is_gmail_connected(db)
    /\ \E outcome \in OutcomesFor(db, "gmail", now) :
       \E expiry \in ExpiriesFor(outcome, now) :
         LET r == refresh_token_step(db, db, now, "gmail", outcome, nextTok, expiry)
         IN  /\ nextTok + r.issued <= MaxRaceTokens + 1
             /\ db' = r.db
             /\ nextTok' = nextTok + r.issued
             /\ basis' = IF r.issued = 1
                         THEN Append(basis, The(db.gmail_access_token))
                         ELSE basis
             /\ last' = [NoLast EXCEPT
                           !.op = "ensure_valid", !.svc = "gmail",
                           !.ret = r.ret, !.calls = r.calls,
                           !.outcome = outcome, !.expiry = expiry,
                           !.token = IF r.issued = 0 THEN 0 ELSE nextTok]
    /\ UNCHANGED <<now, user, streamPc>>
    /\ UNCHANGED <<aggVars, genVars, selVars, repoVars, pipeVars>>

\* routers/case_study_router.py generate_case_study_stream up to the first
\* await of stream_generator: the aggregation loads the user and creates the
\* Gmail connector.
StreamFetch ==
    /\ streamPc = "idle"
    /\ \E outcome \in ConnectorOutcomes(db, now) :
       \E expiry \in ExpiriesFor(outcome, now) :
         LET m == initialize_service(db, now, outcome, nextTok, expiry)
             issued == IF outcome = "ok" THEN 1 ELSE 0
         IN  /\ nextTok + issued <= MaxRaceTokens + 1
             /\ user' = m
             /\ nextTok' = nextTok + issued
             /\ basis' = IF issued = 1
                         THEN Append(basis, The(db.gmail_access_token))
                         ELSE basis
             /\ streamPc' = IF issued = 1 THEN "dirty" ELSE "clean"
             /\ last' = [NoLast EXCEPT
                           !.op = "connector", !.svc = "gmail",
                           !.calls = IF outcome = "none" THEN 0 ELSE 1,
                           !.outcome = outcome, !.expiry = expiry,
                           !.token = IF issued = 0 THEN 0 ELSE nextTok]
    /\ UNCHANGED <<now, db>>
    /\ UNCHANGED <<aggVars, genVars, selVars, repoVars, pipeVars>>

\* stream_generator's session.commit() after the last chunk.  The commit
\* writes the columns the connector assigned when the request's session still
\* holds the user object (flushed), and nothing of the user when the session
\* dependency was closed before the response body was produced.
StreamCommit ==
    /\ streamPc \in {"clean", "dirty"}
    /\ \E flushed \in (IF streamPc = "dirty" THEN BOOLEAN ELSE {FALSE}) :
         /\ db' = IF flushed
                  THEN [db EXCEPT
                          !.gmail_access_token = user.gmail_access_token,
                          !.gmail_refresh_token = user.gmail_refresh_token,
                          !.gmail_token_expires_at = user.gmail_token_expires_at,
                          !.service_credentials = user.service_credentials]
                  ELSE db
         /\ last' = [NoLast EXCEPT !.op = "stream_commit", !.ret = flushed]
    /\ user' = db'
    /\ streamPc' = "idle"
    /\ UNCHANGED <<now, nextTok, basis>>
    /\ UNCHANGED <<aggVars, genVars, selVars, repoVars, pipeVars>>

\* generate_case_study_background: user loaded, connector created by the
\* aggregation, session.commit(), all before the task awaits the model.
BackgroundFetch ==
    /\ \E outcome \in ConnectorOutcomes(db, now) :
       \E expiry \in ExpiriesFor(outcome, now) :
         LET m == initialize_service(db, now, outcome, nextTok, expiry)
             issued == IF outcome = "ok" THEN 1 ELSE 0
         IN  /\ issued = 1
             /\ nextTok + issued <= MaxRaceTokens + 1
             /\ db' = m
             /\ nextTok' = nextTok + issued
             /\ basis' = Append(basis, The(db.gmail_access_token))
             /\ last' = [NoLast EXCEPT
                           !.op = "background", !.svc = "gmail", !.calls = 1,
                           !.outcome = outcome, !.expiry = expiry,
                           !.token = nextTok]
    /\ UNCHANGED <<now, user, streamPc>>
    /\ UNCHANGED <<aggVars, genVars, selVars, repoVars, pipeVars>>

RaceTick ==
    /\ ClockAdvance
    /\ UNCHANGED raceVars
    /\ UNCHANGED <<aggVars, genVars, selVars, repoVars, pipeVars>>

RaceNext ==
    \/ RaceLogin
    \/ DataRouterRefresh
    \/ StreamFetch
    \/ StreamCommit
    \/ BackgroundFetch
    \/ RaceTick

(***************************************************************************)
(* The flat columns and the generic maps of one user under the operations  *)
(* that write credentials.                                                 *)
(***************************************************************************)
\* timedelta(days=30), in minutes.
cleanup_threshold == 43200

\* The condition under which cleanup_expired_tokens clears service s.
cleanup_clears(u, s, t) ==
    /\ LegacyConnected(u, s)
    /\ LegacyExpires(u, s) # None
    /\ t - The(LegacyExpires(u, s)) > cleanup_threshold

\* The four flat columns of service s set to None.
clear_flat_columns(u, s) ==
    IF s = "gmail"
    THEN [u EXCEPT !.gmail_access_token = None,
                   !.gmail_refresh_token = None,
                   !.gmail_token_expires_at = None,
                   !.gmail_connected_at = None]
    ELSE [u EXCEPT !.drive_access_token = None,
                   !.drive_refresh_token = None,
                   !.drive_token_expires_at = None,
                   !.drive_connected_at = None]

\* TokenRefreshService.cleanup_expired_tokens: the user afterwards, and the
\* services it reports as cleaned up.
cleanup_expired_tokens(u, t) ==
    LET g == IF cleanup_clears(u, "gmail", t) THEN clear_flat_columns(u, "gmail")
             ELSE u
        d == IF cleanup_clears(g, "drive", t) THEN clear_flat_columns(g, "drive")
             ELSE g
    IN  [user |-> d,
         cleaned_up |-> {s \in LegacyServices : cleanup_clears(u, s, t)}]

\* A call of cleanup_expired_tokens that clears something and commits.
Cleanup ==
    /\ LET r == cleanup_expired_tokens(user, now)
       IN  /\ r.cleaned_up # {}
           /\ user' = r.user
           /\ db' = r.user
           /\ last' = [NoLast EXCEPT !.op = "cleanup",
                                     !.results = r.cleaned_up]
    /\ UNCHANGED <<now, nextTok>>
    /\ UNCHANGED <<raceVars, aggVars, genVars, selVars, repoVars, pipeVars>>

\* The aggregation of a request creates the Gmail connector, which refreshes
\* an expired token through User.set_service_credentials, and the request
\* commits.
ConnectorRefresh ==
    /\ \E outcome \in ConnectorOutcomes(user, now) :
       \E expiry \in ExpiriesFor(outcome, now) :
         LET m == initialize_service(user, now, outcome, nextTok, expiry)
         IN  /\ outcome = "ok"
             /\ nextTok + 1 <= MaxTokens + 1
             /\ user' = m
             /\ db' = m
             /\ nextTok' = nextTok + 1
             /\ last' = [NoLast EXCEPT
                           !.op = "connector", !.svc = "gmail", !.calls = 1,
                           !.outcome = outcome, !.expiry = expiry,
                           !.token = nextTok]
    /\ UNCHANGED now
    /\ UNCHANGED <<raceVars, aggVars, genVars, selVars, repoVars, pipeVars>>

\* The user stays away for longer than the cleanup threshold.
LongAbsence ==
    /\ now = MaxNow
    /\ now' = now + cleanup_threshold + 61
    /\ UNCHANGED <<user, db, nextTok, last>>
    /\ UNCHANGED <<raceVars, aggVars, genVars, selVars, repoVars, pipeVars>>

\* The service whose generic credentials and connection data this
\* specification sets through the User methods.
SyncServices == {"gmail"}

SyncNext ==
    \/ Login
    \/ \E s \in LegacyServices : Disconnect(s)
    \/ \E s \in SyncServices : SetServiceCredentials(s)
    \/ \E s \in SyncServices : SetServiceConnectionInfo(s)
    \/ \E s \in LegacyServices : RefreshToken(s)
    \/ ConnectorRefresh
    \/ Cleanup
    \/ Tick
    \/ LongAbsence

(***************************************************************************)
(* Token refresh service: the claims.                                      *)
(***************************************************************************)
\* A step of the specification that is a call of ensure_valid for service s.
EnsureValidStep(s) ==
    /\ last'.op = "ensure_valid"
    /\ last'.svc = s
    /\ now' = now

\* C4: for a connected service, ensure_valid calls the refresh capability
\* exactly once when expires_at is unset or now >= expires_at - 5 minutes, and
\* not at all when expires_at is more than 5 minutes after now; it then
\* returns true and leaves the user object and the committed row as they were.
C4_RefreshOnlyInsideBuffer ==
    [][\A s \in LegacyServices :
         (EnsureValidStep(s) /\ LegacyConnected(user, s)) =>
            LET e == LegacyExpires(user, s)
            IN  /\ (e = None \/ now >= The(e) - 5) => last'.calls = 1
                /\ (e # None /\ The(e) > now + 5) =>
                      /\ last'.calls = 0
                      /\ last'.ret = TRUE
                      /\ user' = user
                      /\ db' = db]_tokVars

\* ensure_valid found a connected service's token valid for longer than the
\* buffer and returned true without a refresh call.
C4_Witness ==
    /\ last.op = "ensure_valid"
    /\ last.calls = 0
    /\ last.ret = TRUE
    /\ LegacyConnected(user, last.svc)
    /\ LegacyExpires(user, last.svc) # None

LegacyCredential(u, s) ==
    <<LegacyAccess(u, s), LegacyRefresh(u, s), LegacyExpires(u, s)>>

\* C5: when the refresh attempt of ensure_valid fails at any step, ensure_valid
\* returns false and the credential (access_token, refresh_token, expires_at)
\* on the user object and in the committed row is what it was before the call.
C5_FailedRefreshLeavesCredential ==
    [][\A s \in LegacyServices :
         (EnsureValidStep(s) /\ last'.calls = 1 /\ last'.outcome # "ok") =>
            /\ last'.ret = FALSE
            /\ LegacyCredential(user', s) = LegacyCredential(user, s)
            /\ LegacyCredential(db', s) = LegacyCredential(db, s)]_tokVars

\* C7: ensure_all returns exactly one boolean for every service of
\* get_connected_services() and no other key.
C7_EnsureAllCoversConnected ==
    [][(last'.op = "ensure_all" /\ now' = now) =>
          /\ {r[1] : r \in last'.results} = Range(get_connected_services(user))
          /\ Cardinality(last'.results) = Len(get_connected_services(user))]_tokVars

\* C8: when ensure_valid returns true after a refresh, the access token and
\* the expiry on the user object and in the committed row are the refreshed
\* ones, and the token is not due for another refresh.
C8_TokenAndExpiryReplacedTogether ==
    [][\A s \in LegacyServices :
         (EnsureValidStep(s) /\ last'.calls = 1 /\ last'.ret = TRUE) =>
            /\ LegacyAccess(user', s) = Some(last'.token)
            /\ LegacyAccess(db', s) = Some(last'.token)
            /\ LegacyExpires(user', s) = last'.expiry
            /\ LegacyExpires(db', s) = last'.expiry
            /\ ~(LegacyExpires(user', s) = None
                 \/ now >= The(LegacyExpires(user', s)) - 5)]_tokVars

\* The entry of service s in the generic credentials map, as the triple
\* of LegacyCredential.
MapCredential(u, s) ==
    LET e == The(DictGet(u.service_credentials, s))
    IN  <<e.access_token, e.refresh_token, e.expires_at>>

\* C26: for gmail and drive, whenever the generic credentials map has an entry
\* for the service, the access token, refresh token and expiry in the flat
\* columns equal those of the entry.
C26_FlatFieldsMatchMap ==
    \A s \in LegacyServices :
        DictGet(user.service_credentials, s) # None =>
            LegacyCredential(user, s) = MapCredential(user, s)

\* After the connector stored a refreshed gmail token in the map, the token
\* refresh service refreshed again and the map holds the older token.
C26_Witness ==
    /\ last.op = "ensure_valid"
    /\ last.svc = "gmail"
    /\ last.ret = TRUE
    /\ last.calls = 1
    /\ DictGet(user.service_credentials, "gmail") # None
    /\ user.gmail_access_token = Some(last.token)
    /\ MapCredential(user, "gmail")[1] # Some(last.token)

\* The services the last operation disconnected or cleaned up.
ClearedByLast ==
    IF last.op = "disconnect" THEN {last.svc}
    ELSE IF last.op = "cleanup" THEN last.results
    ELSE {}

\* C27: after disconnect_service(s), and after cleanup_expired_tokens has
\* cleared s, is_service_connected(s) is false and s is not in
\* get_connected_services(), whatever had been stored for s.
C27_ClearedServiceNotConnected ==
    \A s \in ClearedByLast :
        /\ ~is_service_connected(user, s)
        /\ s \notin Range(get_connected_services(user))

\* gmail was disconnected and is still reported connected from the maps.
C27_Witness ==
    /\ last.op = "disconnect"
    /\ last.svc = "gmail"
    /\ user.gmail_access_token = None
    /\ is_service_connected(user, "gmail")
    /\ "gmail" \in Range(get_connected_services(user))

(***************************************************************************)
(* Concurrent refreshes: the claim.                                        *)
(***************************************************************************)
\* The streaming request holds, uncommitted, a token it obtained by refreshing
\* the token that is still in the row.
RefreshPending ==
    /\ streamPc = "dirty"
    /\ user.gmail_access_token # None
    /\ db.gmail_access_token # None
    /\ basis[The(user.gmail_access_token)] = The(db.gmail_access_token)

\* The row's Gmail access token is never replaced by one issued earlier.
NoOlderOverwrite(d, e) ==
    (d.gmail_access_token # None /\ e.gmail_access_token # None)
        => The(e.gmail_access_token) >= The(d.gmail_access_token)

\* C6: refreshes of one credential are serialized per (user, service): while
\* one caller holds the result of refreshing the stored token, no other caller
\* that sees the same token expiring issues a refresh of its own, and the
\* stored credential is never a newer token overwritten by an older one.
C6_RefreshesSerialized ==
    [][(RefreshPending => nextTok' = nextTok) /\ NoOlderOverwrite(db, db')]_vars

(***************************************************************************)
(* services/data_service.py, services/service_registry.py: aggregation.    *)
(***************************************************************************)
\* base_service.py: the values of the ServiceType enum.
ServiceType ==
    {"gmail", "drive", "confluence", "slack", "notion", "jira", "trello", "github"}

\* services/__init__.py: the connectors the registry holds.
RegisteredServices == {"gmail", "drive", "confluence"}

\* The services whose generic credentials the aggregation specification sets.
AggServices == {"confluence", "slack", "wiki"}

\* Every raising site of fetch_all_project_data with the date parsing moved
\* out of the per-service try block.
handler_with_dates_hoisted(site) ==
    CASE site \in {"user_lookup", "connected_services", "summary"} -> "outer"
      [] site \in {"service_type", "create", "is_connected", "fetch"} -> "inner"
      [] OTHER -> "none"

\* The except clause that catches an exception raised at a site of
\* fetch_all_project_data: the per-service one, the outer one, or none.
handler_of(site) ==
    CASE site \in {"user_lookup", "connected_services", "summary"} -> "outer"
      [] site \in {"service_type", "create", "is_connected", "scope_dates",
                   "fetch"} -> "inner"
      [] OTHER -> "none"

NoAggIn == [found |-> TRUE, scope |-> "ok", connected |-> <<>>]

\* The result dict; finished: total_fetch_duration_seconds has been set.
NoResult ==
    [data |-> <<>>, sources_fetched |-> <<>>, errors |-> <<>>, finished |-> FALSE]

\* GmailServiceV2._initialize_service reaches build(): connected, and the
\* token not expired or refreshed.
BuildReached(u, t, outcome) ==
    /\ is_service_connected(u, "gmail")
    /\ \/ ~is_service_token_expired(u, "gmail", t)
       \/ /\ The(get_service_credentials(u, "gmail")).refresh_token # None
          /\ outcome = "ok"

\* One turn of the loop over the connected services: what becomes of service
\* s (data, skip, or raise at a site) and the user object afterwards.
process_service(u, s, t, scope, outcome, token, expiry, build) ==
    IF s \notin ServiceType
    THEN [kind |-> "raise", site |-> "service_type", user |-> u]
    ELSE IF s \notin RegisteredServices
    THEN [kind |-> "skip", site |-> "none", user |-> u]
    ELSE IF s = "drive"
    THEN [kind |-> "raise", site |-> "create", user |-> u]
    ELSE LET m == IF s = "gmail"
                  THEN initialize_service(u, t, outcome, token, expiry)
                  ELSE u
         IN  IF s = "gmail" /\ BuildReached(u, t, outcome) /\ build = "raises"
             THEN [kind |-> "raise", site |-> "create", user |-> m]
             ELSE IF ~is_service_connected(m, s)
             THEN [kind |-> "skip", site |-> "none", user |-> m]
             ELSE IF scope # "ok"
             THEN [kind |-> "raise", site |-> "scope_dates", user |-> m]
             ELSE [kind |-> "data", site |-> "none", user |-> m]

\* The user's first login.
AggLogin ==
    /\ aggPc = "idle"
    /\ user.gmail_connected_at = None
    /\ google_callback
    /\ UNCHANGED <<raceVars, aggVars, genVars, selVars, repoVars, pipeVars>>

AggSetServiceCredentials(s) ==
    /\ aggPc = "idle"
    /\ CallSetServiceCredentials(s)
    /\ UNCHANGED <<raceVars, aggVars, genVars, selVars, repoVars, pipeVars>>

AggSetServiceConnectionInfo(s) ==
    /\ aggPc = "idle"
    /\ CallSetServiceConnectionInfo(s)
    /\ UNCHANGED <<raceVars, aggVars, genVars, selVars, repoVars, pipeVars>>

\* fetch_all_project_data up to the loop: the result dict, the user lookup,
\* get_connected_services and the early return.
AggStart(found, scope) ==
    /\ aggPc = "idle"
    /\ LET connected == IF found THEN get_connected_services(user) ELSE <<>>
       IN  /\ aggIn' = [found |-> found, scope |-> scope, connected |-> connected]
           /\ aggQueue' = connected
           /\ IF ~found
              THEN /\ raised' = (handler_of("user_lookup") = "none")
                   /\ result' = IF handler_of("user_lookup") = "outer"
                                THEN [NoResult EXCEPT !.errors = <<"Service">>]
                                ELSE NoResult
                   /\ aggPc' = "done"
              ELSE /\ raised' = FALSE
                   /\ result' = NoResult
                   /\ aggPc' = IF connected = <<>> THEN "done" ELSE "loop"
    /\ aggLog' = <<>>
    /\ calls' = <<>>
    /\ UNCHANGED <<tokVars, raceVars, genVars, selVars, repoVars, pipeVars>>

\* The body of the loop for the next connected service.
AggService ==
    /\ aggPc = "loop"
    /\ aggQueue # <<>>
    /\ LET s == Head(aggQueue)
       IN  \E outcome \in (IF s = "gmail" THEN ConnectorOutcomes(user, now) ELSE {"none"}) :
           \E expiry \in ExpiriesFor(outcome, now) :
           \E build \in (IF s = "gmail" /\ BuildReached(user, now, outcome)
                         THEN {"ok", "raises"} ELSE {"ok"}) :
             LET r == process_service(user, s, now, aggIn.scope, outcome,
                                      nextTok, expiry, build)
                 issued == IF outcome = "ok" THEN 1 ELSE 0
                 h == IF r.kind = "raise" THEN handler_of(r.site) ELSE "inner"
             IN  /\ nextTok + issued <= MaxTokens + 1
                 /\ user' = r.user
                 /\ nextTok' = nextTok + issued
                 /\ aggLog' = Append(aggLog, [service |-> s, kind |-> r.kind])
                 /\ calls' = calls
                      \o (IF s = "gmail" /\ connector_refreshes(user, now)
                          THEN <<[op |-> "refresh_credentials", service |-> s]>>
                          ELSE <<>>)
                      \o (IF r.kind = "data"
                          THEN <<[op |-> "fetch", service |-> s]>>
                          ELSE <<>>)
                 /\ result' =
                      CASE r.kind = "data" ->
                             [result EXCEPT
                                !.data = Append(@, s),
                                !.sources_fetched = Append(@, s)]
                        [] r.kind = "raise" /\ h = "inner" ->
                             [result EXCEPT !.errors = Append(@, s)]
                        [] r.kind = "raise" /\ h = "outer" ->
                             [result EXCEPT !.errors = Append(@, "Service")]
                        [] OTHER -> result
                 /\ raised' = (h = "none")
                 /\ aggPc' = IF h = "inner" THEN "loop" ELSE "done"
                 /\ aggQueue' = Tail(aggQueue)
    /\ UNCHANGED <<now, db, last, aggIn, raceVars, genVars, selVars, repoVars, pipeVars>>

\* After the loop: the summary and total_fetch_duration_seconds.
AggFinish ==
    /\ aggPc = "loop"
    /\ aggQueue = <<>>
    /\ result' = [result EXCEPT !.finished = TRUE]
    /\ aggPc' = "done"
    /\ UNCHANGED <<tokVars, raceVars, aggIn, aggQueue, raised, aggLog, calls,
                   genVars, selVars, repoVars, pipeVars>>

\* The refresh and fetch calls of routers/data_router.py
\* fetch_all_project_data: refresh_all_user_tokens first, then each connected
\* service whose refresh returned true is fetched, when its connector could
\* be created.
router_calls(u, results, created) ==
    (IF is_gmail_connected(u)
     THEN <<[op |-> "ensure_valid", service |-> "gmail"]>> ELSE <<>>)
    \o (IF is_drive_connected(u)
        THEN <<[op |-> "ensure_valid", service |-> "drive"]>> ELSE <<>>)
    \o (IF <<"gmail", TRUE>> \in results /\ "gmail" \in created
        THEN <<[op |-> "fetch", service |-> "gmail"]>> ELSE <<>>)
    \o (IF <<"drive", TRUE>> \in results /\ "drive" \in created
        THEN <<[op |-> "fetch", service |-> "drive"]>> ELSE <<>>)

\* routers/data_router.py fetch_all_project_data, which has no await: the
\* tokens are refreshed and the connected legacy services are fetched.
RouterFetchAll ==
    /\ aggPc = "idle"
    /\ is_gmail_connected(user) \/ is_drive_connected(user)
    /\ \E og \in OutcomesFor(user, "gmail", now) :
       \E eg \in ExpiriesFor(og, now) :
         LET g == refresh_token_step(user, db, now, "gmail", og, nextTok, eg)
         IN  \E od \in OutcomesFor(g.user, "drive", now) :
             \E ed \in ExpiriesFor(od, now) :
               LET r == refresh_all_user_tokens(user, db, now, og, od, nextTok,
                                                eg, ed)
               IN  \E created \in SUBSET {s \in LegacyServices :
                                            <<s, TRUE>> \in r.results} :
                   /\ nextTok + r.issued <= MaxTokens + 1
                   /\ user' = r.user
                   /\ db' = r.db
                   /\ nextTok' = nextTok + r.issued
                   /\ last' = [NoLast EXCEPT
                                 !.op = "ensure_all", !.calls = r.calls,
                                 !.results = r.results]
                   /\ calls' = router_calls(user, r.results, created)
    /\ aggPc' = "router_done"
    /\ UNCHANGED <<now, aggIn, aggQueue, result, raised, aggLog, raceVars,
                   genVars, selVars, repoVars, pipeVars>>

ScopeKinds == {"ok", "no_dates", "bad_dates"}

\* services/__init__.py: the order in which initialize_services registers the
\* connectors.
RegistrationOrder == <<"gmail", "drive", "confluence">>

\* The services whose generic credentials and connection data the ordering
\* specification sets: the registered connectors that can be created.
OrdServices == {"gmail", "confluence"}

OrdSetAccessTokenOnly(s) ==
    /\ aggPc = "idle"
    /\ CallSetAccessTokenOnly(s)
    /\ UNCHANGED <<raceVars, aggVars, genVars, selVars, repoVars, pipeVars>>

OrdNext ==
    \/ AggLogin
    \/ \E s \in OrdServices : AggSetServiceCredentials(s)
    \/ \E s \in OrdServices : OrdSetAccessTokenOnly(s)
    \/ \E s \in OrdServices : AggSetServiceConnectionInfo(s)
    \/ \E found \in BOOLEAN, scope \in ScopeKinds : AggStart(found, scope)
    \/ AggService
    \/ AggFinish

AggNext ==
    \/ AggLogin
    \/ \E s \in AggServices : AggSetServiceCredentials(s)
    \/ \E s \in AggServices : AggSetServiceConnectionInfo(s)
    \/ \E found \in BOOLEAN, scope \in ScopeKinds : AggStart(found, scope)
    \/ AggService
    \/ AggFinish
    \/ RouterFetchAll

(***************************************************************************)
(* Aggregation: the claims.                                                *)
(***************************************************************************)
\* The connected services whose connector raised during the call.
RaisingServices == {aggLog[i].service : i \in {j \in DOMAIN aggLog : aggLog[j].kind = "raise"}}

\* The number of entries of the error list that name service s.
ErrorEntries(s) == Cardinality({i \in DOMAIN result.errors : result.errors[i] = s})

\* C3: when the call has returned for a user that exists, the bundle's data
\* holds exactly the connected services whose connector did not raise, the
\* error list has one entry for each service that raised, and every connected
\* service was processed.
C3_DataIsExactlyNonRaising ==
    (aggPc = "done" /\ aggIn.found) =>
        /\ Len(aggLog) = Len(aggIn.connected)
        /\ Range(result.data) = Range(aggIn.connected) \ RaisingServices
        /\ \A s \in Range(aggIn.connected) :
             ErrorEntries(s) = IF s \in RaisingServices THEN 1 ELSE 0

\* A connected service that did not raise is missing from the data.
C3_Witness ==
    /\ aggPc = "done"
    /\ \E i \in DOMAIN aggLog :
         /\ aggLog[i].kind = "skip"
         /\ aggLog[i].service \notin Range(result.data)
         /\ ErrorEntries(aggLog[i].service) = 0

\* C22: when the call has returned a bundle for a user that exists, every
\* connected service is either in sources_fetched with a data entry or in the
\* error list, never in neither and never in both.
C22_EveryServiceAccountedFor ==
    (aggPc = "done" /\ aggIn.found /\ result.finished) =>
        \A s \in Range(aggIn.connected) :
            LET fetched == s \in Range(result.sources_fetched)
                               /\ s \in Range(result.data)
                failed == ErrorEntries(s) >= 1
            IN  (fetched \/ failed) /\ ~(fetched /\ failed)

\* The call has returned a finished bundle in which a connected service with
\* no registered connector is neither fetched nor in the error list.
C22_Witness ==
    /\ aggPc = "done"
    /\ result.finished
    /\ \E s \in Range(aggIn.connected) :
         /\ s \in ServiceType \ RegisteredServices
         /\ s \notin Range(result.sources_fetched)
         /\ s \notin Range(result.data)
         /\ ErrorEntries(s) = 0

\* C16: in an aggregation run every fetch of a service comes after an
\* ensure_valid call of the token refresh service for that service.
C16_FetchAfterEnsureValid ==
    \A i \in DOMAIN calls :
        calls[i].op = "fetch" =>
            \E j \in 1..(i - 1) :
                calls[j].op = "ensure_valid" /\ calls[j].service = calls[i].service

\* fetch_all_project_data of the unified data service has fetched gmail and
\* the token refresh service was not called in the run.
C16_Witness ==
    /\ aggPc = "done"
    /\ \E i \in DOMAIN calls : calls[i] = [op |-> "fetch", service |-> "gmail"]
    /\ \A i \in DOMAIN calls : calls[i].op # "ensure_valid"

\* The place of a registered service in the registry.
RegIndex(s) == CHOOSE i \in DOMAIN RegistrationOrder : RegistrationOrder[i] = s

InRegistrationOrder(services) ==
    \A i, j \in DOMAIN services :
        i < j => RegIndex(services[i]) < RegIndex(services[j])

\* C17: the data entries and sources_fetched of the bundle list the fetched
\* services in the order in which the registry registered them.
C17_BundleInRegistrationOrder ==
    aggPc = "done" =>
        /\ InRegistrationOrder(result.data)
        /\ InRegistrationOrder(result.sources_fetched)

\* A bundle that lists confluence before gmail.
C17_Witness ==
    /\ aggPc = "done"
    /\ result.finished
    /\ result.data = <<"confluence", "gmail">>
    /\ result.sources_fetched = <<"confluence", "gmail">>

MaxChunks == 3     \* chunks the model backend produces in a run

Whitespace == {" ", "\n"}

\* The chunks the backend may produce: empty, one character, "##" or "a:".
Chunks ==
    {<<>>, <<"#">>, <<"a">>, <<":">>, <<"\n">>, <<"#", "#">>, <<"a", ":">>}

RECURSIVE lstrip(_)
lstrip(t) ==
    IF t # <<>> /\ Head(t) \in Whitespace THEN lstrip(Tail(t)) ELSE t

RECURSIVE rstrip(_)
rstrip(t) ==
    IF t # <<>> /\ t[Len(t)] \in Whitespace
    THEN rstrip(SubSeq(t, 1, Len(t) - 1))
    ELSE t

strip(t) == rstrip(lstrip(t))

RECURSIVE AfterLastNewline(_)
\* text.split('\n')[-1]
AfterLastNewline(t) ==
    IF \E i \in DOMAIN t : t[i] = "\n"
    THEN AfterLastNewline(Tail(t))
    ELSE t

\* lines[-1].strip() of text.strip().split('\n')
last_line(text) == strip(AfterLastNewline(strip(text)))

startswith(t, p) == Len(t) >= Len(p) /\ SubSeq(t, 1, Len(p)) = p

endswith(t, p) ==
    Len(t) >= Len(p) /\ SubSeq(t, Len(t) - Len(p) + 1, Len(t)) = p

\* len(t.split()): the number of runs of characters that are not whitespace.
WordCount(t) ==
    Cardinality({i \in DOMAIN t :
                   /\ t[i] \notin Whitespace
                   /\ (i = 1 \/ t[i - 1] \in Whitespace)})

RECURSIVE replace(_, _)
\* t.replace(p, ''): every occurrence of p, left to right, removed.
replace(t, p) ==
    IF t = <<>> THEN <<>>
    ELSE IF startswith(t, p) THEN replace(SubSeq(t, Len(p) + 1, Len(t)), p)
    ELSE <<Head(t)>> \o replace(Tail(t), p)

\* (The names in the source start with an underscore.)
is_section_boundary(text) ==
    LET l == last_line(text)
    IN  \/ startswith(l, <<"#">>)
        \/ startswith(l, <<"#", "#", " ">>)
        \/ (endswith(l, <<":">>) /\ WordCount(l) <= 5)

extract_section_name(text) ==
    LET l == last_line(text)
    IN  IF startswith(l, <<"#", "#">>) THEN Some(strip(replace(l, <<"#", "#">>)))
        ELSE IF startswith(l, <<"#">>) THEN Some(strip(replace(l, <<"#">>)))
        ELSE IF endswith(l, <<":">>) THEN Some(strip(replace(l, <<":">>)))
        ELSE None

RECURSIVE split_lines(_)
\* text.split('\n')
split_lines(t) ==
    IF \E i \in DOMAIN t : t[i] = "\n"
    THEN LET i == CHOOSE k \in DOMAIN t :
                      t[k] = "\n" /\ \A j \in 1..(k - 1) : t[j] # "\n"
         IN  <<SubSeq(t, 1, i - 1)>> \o split_lines(SubSeq(t, i + 1, Len(t)))
    ELSE <<t>>

\* The test of _extract_sections on one stripped line.
is_section_line(line) ==
    \/ startswith(line, <<"#">>)
    \/ (endswith(line, <<":">>) /\ WordCount(line) <= 5)

\* The stripped lines of the text that look like a section heading.
extract_sections(text) ==
    LET lines == split_lines(text)
    IN  SelectSeq([i \in DOMAIN lines |-> strip(lines[i])], is_section_line)

\* max(1, len(text) // 4)
estimate_tokens(text) ==
    IF Len(text) \div 4 >= 1 THEN Len(text) \div 4 ELSE 1

\* A StreamingChunk, and an event of a route; by: who produced it, meta: what
\* its metadata says, metrics: the "metrics" of the engine's final metadata.
Event(by, type, content, section, meta) ==
    [by |-> by, type |-> type, content |-> content, section |-> section,
     meta |-> meta, metrics |-> None]

\* The metrics the engine puts into its final metadata chunk.
final_metrics(accumulated_content) ==
    [tokens_used |-> estimate_tokens(accumulated_content),
     sections_generated |-> Len(extract_sections(accumulated_content))]

\* The loop body with the content chunk tagged before the boundary test.
engine_step_tagging_first(e, content) ==
    LET acc == e.accumulated_content \o content
        name == extract_section_name(acc)
        opens == /\ is_section_boundary(acc)
                 /\ name # None
                 /\ The(name) # <<>>
                 /\ name # e.current_section
        closing == IF opens /\ e.current_section # None
                   THEN <<Event("engine", "section_end", <<>>, e.current_section, "none")>>
                   ELSE <<>>
        opening == IF opens
                   THEN <<Event("engine", "section_start", <<>>, name, "none")>>
                   ELSE <<>>
        current == IF opens THEN name ELSE e.current_section
    IN  [engine |-> [accumulated_content |-> acc, current_section |-> current],
         out |-> closing \o opening
                 \o <<Event("engine", "content", content, e.current_section,
                            "none")>>]

\* The body of the loop over model.astream for one chunk with content: the
\* engine afterwards and the chunks it yields.
engine_step(e, content) ==
    LET acc == e.accumulated_content \o content
        name == extract_section_name(acc)
        opens == /\ is_section_boundary(acc)
                 /\ name # None
                 /\ The(name) # <<>>
                 /\ name # e.current_section
        closing == IF opens /\ e.current_section # None
                   THEN <<Event("engine", "section_end", <<>>, e.current_section, "none")>>
                   ELSE <<>>
        opening == IF opens
                   THEN <<Event("engine", "section_start", <<>>, name, "none")>>
                   ELSE <<>>
        current == IF opens THEN name ELSE e.current_section
    IN  [engine |-> [accumulated_content |-> acc, current_section |-> current],
         out |-> closing \o opening
                 \o <<Event("engine", "content", content, current, "none")>>]

RECURSIVE run_engine(_, _, _)
\* The loop over a whole stream of chunks with content: the chunks yielded.
run_engine(e, chunks, out) ==
    IF chunks = <<>> THEN out
    ELSE LET r == engine_step(e, Head(chunks))
         IN  run_engine(r.engine, Tail(chunks), out \o r.out)

\* The stream "## Intro\nHello\n## Body\nWorld\n", one line a chunk.
IntroBodyStream ==
    << <<"#", "#", " ", "I", "n", "t", "r", "o", "\n">>,
       <<"H", "e", "l", "l", "o", "\n">>,
       <<"#", "#", " ", "B", "o", "d", "y", "\n">>,
       <<"W", "o", "r", "l", "d", "\n">> >>

RECURSIVE Contents(_)
\* The contents of the content chunks, joined: what the streaming route keeps
\* in full_content and generate_case_study_complete returns as "content".
Contents(evs) ==
    IF evs = <<>> THEN <<>>
    ELSE (IF Head(evs).type = "content" THEN Head(evs).content ELSE <<>>)
         \o Contents(Tail(evs))

(***************************************************************************)
(* routers/case_study_router.py: the streaming route and the background    *)
(* generation task.                                                        *)
(***************************************************************************)
NoJob == [status |-> "none", full_content |-> None, statusLog |-> <<>>]
NoBackend == [sent |-> 0, delivered |-> <<>>, raised |-> FALSE]
NoEngine == [accumulated_content |-> <<>>, current_section |-> None]

\* case_study.status = value, on the session's object.
SetStatus(j, value) ==
    [j EXCEPT !.status = value, !.statusLog = Append(@, value)]

\* generate_case_study_stream: the job is created generating and committed;
\* stream_generator sends the summary of the data first.
StartStream ==
    /\ genPc = "idle"
    /\ route' = "stream"
    /\ job' = SetStatus(NoJob, "running")
    /\ dbStatus' = <<"running">>
    /\ events' = <<Event("route", "metadata", <<>>, None, "data_summary")>>
    /\ genPc' = "start"
    /\ UNCHANGED <<polled, backend, engine, tokVars, raceVars, aggVars, selVars, repoVars, pipeVars>>

\* start_case_study_generation: the job is created pending and the
\* background task is scheduled.
StartBackground ==
    /\ genPc = "idle"
    /\ route' = "background"
    /\ job' = SetStatus(NoJob, "pending")
    /\ dbStatus' = <<"pending">>
    /\ genPc' = "pending"
    /\ UNCHANGED <<polled, backend, engine, events, tokVars, raceVars, aggVars, selVars, repoVars, pipeVars>>

\* generate_case_study_background up to the engine: generating is committed;
\* a user that is not found raises into the except clause.
BgBegin(userFound) ==
    /\ genPc = "pending"
    /\ IF userFound
       THEN /\ job' = SetStatus(job, "running")
            /\ dbStatus' = Append(dbStatus, "running")
            /\ genPc' = "start"
       ELSE /\ job' = SetStatus(SetStatus(job, "running"), "failed")
            /\ dbStatus' = dbStatus \o <<"running", "failed">>
            /\ genPc' = "done"
    /\ UNCHANGED <<polled, route, backend, engine, events, tokVars, raceVars, aggVars,
                   selVars, repoVars, pipeVars>>

\* generate_case_study_stream of the engine up to the loop: an unregistered
\* model yields one error chunk and ends the stream.
EngineStart(modelOk) ==
    /\ genPc = "start"
    /\ IF modelOk
       THEN /\ events' = Append(events,
                   Event("engine", "section_start", <<>>,
                         Some(<<"generation_started">>), "none"))
            /\ genPc' = "engine"
       ELSE /\ events' = Append(events, Event("engine", "error", <<>>, None, "none"))
            /\ genPc' = "finish"
    /\ engine' = NoEngine
    /\ UNCHANGED <<polled, route, job, dbStatus, backend, tokVars, raceVars, aggVars,
                   selVars, repoVars, pipeVars>>

\* The backend produces a chunk; a chunk without content yields nothing.
EngineChunk(content) ==
    /\ genPc = "engine"
    /\ backend.sent < MaxChunks
    /\ backend' = [backend EXCEPT !.sent = @ + 1, !.delivered = @ \o content]
    /\ IF content = <<>>
       THEN UNCHANGED <<engine, events>>
       ELSE LET r == engine_step(engine, content)
            IN  /\ engine' = r.engine
                /\ events' = events \o r.out
    /\ UNCHANGED <<polled, genPc, route, job, dbStatus, tokVars, raceVars, aggVars,
                   selVars, repoVars, pipeVars>>

\* The backend raises: the engine's except clause yields one error chunk.
BackendRaise ==
    /\ genPc = "engine"
    /\ backend' = [backend EXCEPT !.raised = TRUE]
    /\ events' = Append(events, Event("engine", "error", <<>>, None, "none"))
    /\ genPc' = "finish"
    /\ UNCHANGED <<polled, route, job, dbStatus, engine, tokVars, raceVars, aggVars,
                   selVars, repoVars, pipeVars>>

\* The backend's stream ends: the last section is closed and the final
\* metadata chunk is yielded.
EngineEnd ==
    /\ genPc = "engine"
    /\ events' = events
                 \o (IF engine.current_section # None
                     THEN <<Event("engine", "section_end", <<>>,
                                  engine.current_section, "none")>>
                     ELSE <<>>)
                 \o <<[Event("engine", "metadata", <<>>, None,
                             "generation_complete")
                       EXCEPT !.metrics =
                           Some(final_metrics(engine.accumulated_content))]>>
    /\ genPc' = "finish"
    /\ UNCHANGED <<polled, route, job, dbStatus, backend, engine, tokVars, raceVars,
                   aggVars, selVars, repoVars, pipeVars>>

\* What the calls after the engine's stream may do.  commit_raises:
\* session.commit() fails.  reload_raises: the commit succeeded and loading
\* the expired object for case_study.id fails.
FinishOutcomes(r) ==
    IF r = "stream" THEN {"ok", "commit_raises", "reload_raises"}
    ELSE {"ok", "commit_raises"}

\* The statuses committed by the end of a route: completed when the first
\* commit succeeds, failed when the except clause runs and its commit succeeds.
CommittedAtFinish(outcome, second) ==
    (IF outcome \in {"ok", "reload_raises"} THEN <<"completed">> ELSE <<>>)
    \o (IF outcome # "ok" /\ second THEN <<"failed">> ELSE <<>>)

\* stream_generator after the loop: full_content and completed are assigned
\* and committed and the completion event is sent; an exception on the way
\* runs the except clause, which assigns failed, commits and sends an error
\* event.
FinishStream(outcome, second) ==
    /\ genPc = "finish"
    /\ route = "stream"
    /\ LET c == [SetStatus(job, "completed") EXCEPT
                   !.full_content = Some(Contents(events))]
       IN  /\ job' = IF outcome = "ok" THEN c ELSE SetStatus(c, "failed")
           /\ dbStatus' = dbStatus \o CommittedAtFinish(outcome, second)
           /\ events' =
                IF outcome = "ok"
                THEN Append(events,
                        Event("route", "metadata", <<>>, Some(<<"completion">>),
                              "generation_complete"))
                ELSE IF second
                THEN Append(events, Event("route", "error", <<>>, None, "none"))
                ELSE events
    /\ genPc' = "done"
    /\ UNCHANGED <<polled, route, backend, engine, tokVars, raceVars, aggVars, selVars, repoVars, pipeVars>>

\* generate_case_study_background after generate_case_study_complete.
FinishBackground(outcome, second) ==
    /\ genPc = "finish"
    /\ route = "background"
    /\ LET c == [SetStatus(job, "completed") EXCEPT
                   !.full_content = Some(Contents(events))]
       IN  /\ job' = IF outcome = "ok" THEN c ELSE SetStatus(c, "failed")
           /\ dbStatus' = dbStatus \o CommittedAtFinish(outcome, second)
    /\ genPc' = "done"
    /\ UNCHANGED <<polled, route, backend, engine, events, tokVars, raceVars, aggVars,
                   selVars, repoVars, pipeVars>>

\* The generator of the streaming route marking the job cancelled when it is
\* closed.
abandon_cancels(j, caught) == SetStatus(j, "cancelled")

\* The job after the consumer of the streaming route has gone and the
\* generator was closed at its yield or sleep.  caught: the exception thrown
\* into the generator is an Exception (asyncio.CancelledError before Python
\* 3.8) and the except clause runs; otherwise nothing is assigned.
abandon_status(j, caught) ==
    IF caught THEN SetStatus(j, "failed") ELSE j

\* The consumer abandons the event sequence of the streaming route.
Abandon(caught, committed) ==
    /\ route = "stream"
    /\ genPc \in {"start", "engine", "finish"}
    /\ job' = abandon_status(job, caught)
    /\ dbStatus' = IF caught /\ committed THEN Append(dbStatus, "failed")
                   ELSE dbStatus
    /\ genPc' = "abandoned"
    /\ UNCHANGED <<route, backend, engine, events, polled, tokVars, raceVars,
                   aggVars, selVars, repoVars, pipeVars>>

\* stream_case_study_progress: the poller reads the row and sends its status.
Poll ==
    /\ dbStatus # <<>>
    /\ polled # dbStatus[Len(dbStatus)]
    /\ polled' = dbStatus[Len(dbStatus)]
    /\ UNCHANGED <<genPc, route, job, dbStatus, backend, engine, events,
                   tokVars, raceVars, aggVars, selVars, repoVars, pipeVars>>

GenNext ==
    \/ \E caught \in BOOLEAN :
       \E committed \in (IF caught THEN BOOLEAN ELSE {FALSE}) :
         Abandon(caught, committed)
    \/ Poll
    \/ StartStream
    \/ StartBackground
    \/ \E userFound \in BOOLEAN : BgBegin(userFound)
    \/ \E modelOk \in BOOLEAN : EngineStart(modelOk)
    \/ \E content \in Chunks : EngineChunk(content)
    \/ BackendRaise
    \/ EngineEnd
    \/ \E outcome \in FinishOutcomes("stream") :
       \E second \in (IF outcome = "ok" THEN {TRUE} ELSE BOOLEAN) :
         FinishStream(outcome, second)
    \/ \E outcome \in FinishOutcomes("background") :
       \E second \in (IF outcome = "ok" THEN {TRUE} ELSE BOOLEAN) :
         FinishBackground(outcome, second)

(***************************************************************************)
(* routers/case_study_router.py stream_generator pulling the engine: both  *)
(* are async generators, so each runs only while its consumer awaits its    *)
(* next item.  pipe.pc: idle, yielded (the route is suspended at a yield   *)
(* and the response holds the event), wants (the response has asked for    *)
(* the next event) or closed.                                              *)
(***************************************************************************)
NoPipe ==
    [pc |-> "idle", sent |-> 0, ended |-> FALSE, finished |-> FALSE,
     engine |-> NoEngine,
     toYield |-> <<>>,     \* chunks the engine yields before it reads again
     produced |-> <<>>,    \* the chunks the engine has yielded, in order
     forwarded |-> <<>>,   \* the events the route has yielded, in order
     taken |-> 0]          \* how many of them the response has sent

\* event_data of stream_generator for a chunk of the engine.
sse_event(chunk) ==
    [event |-> "chunk", type |-> chunk.type, content |-> chunk.content,
     section |-> chunk.section, metadata |-> <<chunk.meta, chunk.metrics>>]

\* The two events the route sends of its own: the summary of the data and
\* the completion.
route_event(section) ==
    [event |-> "chunk", type |-> "metadata", content |-> <<>>,
     section |-> Some(section), metadata |-> <<"route", None>>]

\* The engine's code running whenever it has something to do, without being
\* asked for its next chunk.
engine_runs_ahead(p) == p.pc \in {"wants", "yielded"}

\* The engine's code runs only inside the route's "async for", that is after
\* the response has asked the route for its next event.
engine_may_run(p) == p.pc = "wants"

\* The engine yields the first chunk of out and is suspended; the route
\* converts the chunk, yields the event and is suspended.
engine_yield(p, out) ==
    [p EXCEPT !.produced = Append(@, Head(out)),
              !.forwarded = Append(@, sse_event(Head(out))),
              !.toYield = Tail(out),
              !.pc = "yielded"]

\* The streaming request: the route yields the summary of the data; the
\* engine will yield section_start "generation_started" when first asked.
PipeStart(modelOk) ==
    /\ pipe.pc = "idle"
    /\ pipe' = [NoPipe EXCEPT
                  !.pc = "yielded",
                  !.forwarded = <<route_event(<<"data_summary">>)>>,
                  !.ended = ~modelOk,
                  !.toYield =
                      IF modelOk
                      THEN <<Event("engine", "section_start", <<>>,
                                   Some(<<"generation_started">>), "none")>>
                      ELSE <<Event("engine", "error", <<>>, None, "none")>>]
    /\ UNCHANGED <<tokVars, raceVars, aggVars, genVars, selVars, repoVars>>

\* The response has sent the event it holds and asks the route for the next
\* one; after the completion event the generator ends.
ConsumerNext ==
    /\ pipe.pc = "yielded"
    /\ pipe' = [pipe EXCEPT !.taken = Len(pipe.forwarded),
                            !.pc = IF pipe.finished THEN "closed" ELSE "wants"]
    /\ UNCHANGED <<tokVars, raceVars, aggVars, genVars, selVars, repoVars>>

\* The engine goes on to its next yield without reading from the backend.
EngineResume ==
    /\ engine_may_run(pipe)
    /\ pipe.toYield # <<>>
    /\ pipe' = engine_yield(pipe, pipe.toYield)
    /\ UNCHANGED <<tokVars, raceVars, aggVars, genVars, selVars, repoVars>>

\* The engine reads the next chunk of the backend; a chunk without content
\* yields nothing and the engine reads again.
EngineRead(content) ==
    /\ engine_may_run(pipe)
    /\ pipe.toYield = <<>>
    /\ ~pipe.ended
    /\ pipe.sent < MaxChunks
    /\ IF content = <<>>
       THEN pipe' = [pipe EXCEPT !.sent = @ + 1]
       ELSE LET r == engine_step(pipe.engine, content)
            IN  pipe' = engine_yield([pipe EXCEPT !.sent = @ + 1,
                                                  !.engine = r.engine], r.out)
    /\ UNCHANGED <<tokVars, raceVars, aggVars, genVars, selVars, repoVars>>

\* The backend's stream ends (the last section is closed, then the metadata
\* chunk) or raises (the error chunk).
EngineStop(raises) ==
    /\ engine_may_run(pipe)
    /\ pipe.toYield = <<>>
    /\ ~pipe.ended
    /\ LET out ==
             IF raises THEN <<Event("engine", "error", <<>>, None, "none")>>
             ELSE (IF pipe.engine.current_section # None
                   THEN <<Event("engine", "section_end", <<>>,
                                pipe.engine.current_section, "none")>>
                   ELSE <<>>)
                  \o <<[Event("engine", "metadata", <<>>, None,
                              "generation_complete")
                        EXCEPT !.metrics = Some(final_metrics(
                                   pipe.engine.accumulated_content))]>>
       IN  pipe' = engine_yield([pipe EXCEPT !.ended = TRUE], out)
    /\ UNCHANGED <<tokVars, raceVars, aggVars, genVars, selVars, repoVars>>

\* The engine's generator is exhausted: the route saves the job and yields
\* the completion event.
RouteComplete ==
    /\ pipe.pc = "wants"
    /\ pipe.toYield = <<>>
    /\ pipe.ended
    /\ pipe' = [pipe EXCEPT
                  !.forwarded = Append(@, route_event(<<"completion">>)),
                  !.finished = TRUE,
                  !.pc = "yielded"]
    /\ UNCHANGED <<tokVars, raceVars, aggVars, genVars, selVars, repoVars>>

\* The consumer goes away while the response holds an event.
PipeAbandon ==
    /\ pipe.pc = "yielded"
    /\ pipe' = [pipe EXCEPT !.pc = "closed"]
    /\ UNCHANGED <<tokVars, raceVars, aggVars, genVars, selVars, repoVars>>

PipeNext ==
    \/ \E modelOk \in BOOLEAN : PipeStart(modelOk)
    \/ ConsumerNext
    \/ EngineResume
    \/ \E content \in Chunks : EngineRead(content)
    \/ \E raises \in BOOLEAN : EngineStop(raises)
    \/ RouteComplete
    \/ PipeAbandon

\* The steps of the generation task (the generator of the streaming route or
\* the background task) and of the engine it drives: what the event loop runs
\* whenever the task can run.
GenTaskStep ==
    \/ \E userFound \in BOOLEAN : BgBegin(userFound)
    \/ \E modelOk \in BOOLEAN : EngineStart(modelOk)
    \/ \E content \in Chunks : EngineChunk(content)
    \/ BackendRaise
    \/ EngineEnd
    \/ \E outcome \in FinishOutcomes("stream") :
       \E second \in (IF outcome = "ok" THEN {TRUE} ELSE BOOLEAN) :
         FinishStream(outcome, second)
    \/ \E outcome \in FinishOutcomes("background") :
       \E second \in (IF outcome = "ok" THEN {TRUE} ELSE BOOLEAN) :
         FinishBackground(outcome, second)

(***************************************************************************)
(* Generation: the claims.                                                 *)
(***************************************************************************)
EventsOfType(type) == {i \in DOMAIN events : events[i].type = type}

\* The events that tell the consumer that generation is complete.
TerminalMetadata ==
    {i \in EventsOfType("metadata") : events[i].meta = "generation_complete"}

\* The places of the chunks the engine has yielded.
EngineEvents == {i \in DOMAIN events : events[i].by = "engine"}

\* The section_start chunks for sections of the generated text: all but the
\* "generation_started" chunk the engine yields before the loop.
SectionsOpened ==
    {i \in EngineEvents :
       /\ events[i].type = "section_start"
       /\ \E j \in EngineEvents : j < i}

\* The engine's stream has ended without an error chunk.
EngineCompleted ==
    /\ genPc \in {"finish", "done"}
    /\ EngineEvents # {}
    /\ \A i \in EngineEvents : events[i].type # "error"

\* C1: when the backend has raised after k chunks and the route has ended,
\* the job is failed, its full_content is the concatenation of the k chunks,
\* and the run has emitted exactly one error event and no terminal metadata
\* event.
C1_BackendFailureFailsJob ==
    (genPc = "done" /\ backend.raised) =>
        /\ job.status = "failed"
        /\ job.full_content = Some(backend.delivered)
        /\ Cardinality(EventsOfType("error")) = 1
        /\ TerminalMetadata = {}

\* The background task has marked a job completed whose backend raised after
\* at least one chunk.
C1_Witness ==
    /\ genPc = "done"
    /\ route = "background"
    /\ backend.raised
    /\ backend.delivered # <<>>
    /\ job.status = "completed"
    /\ dbStatus[Len(dbStatus)] = "completed"

StatusSteps ==
    {<<"pending", "running">>, <<"running", "completed">>,
     <<"running", "failed">>, <<"running", "cancelled">>}

\* C2: the statuses assigned to a job follow pending -> running -> one
\* terminal status: after completed, failed or cancelled has been set, the
\* status is not set again.
C2_StatusOnlyForward ==
    \A i \in 1..(Len(job.statusLog) - 1) :
        <<job.statusLog[i], job.statusLog[i + 1]>> \in StatusSteps

\* A job marked completed and afterwards marked failed, in the row as well.
C2_Witness ==
    /\ genPc = "done"
    /\ job.status = "failed"
    /\ \E i \in 1..(Len(dbStatus) - 1) :
         dbStatus[i] = "completed" /\ dbStatus[i + 1] = "failed"

\* C13: when the engine's stream has completed normally, the engine has
\* yielded exactly one metadata chunk, it is the engine's last chunk, and its
\* sections_generated is the number of sections the engine opened from the
\* generated text.
C13_OneMetadataCountsSections ==
    EngineCompleted =>
        LET m == {i \in EngineEvents : events[i].type = "metadata"}
        IN  /\ Cardinality(m) = 1
            /\ \A i \in m :
                 /\ \A j \in EngineEvents : j <= i
                 /\ The(events[i].metrics).sections_generated
                        = Cardinality(SectionsOpened)

\* A completed run whose metadata counts another number of sections than the
\* engine opened.
C13_Witness ==
    /\ EngineCompleted
    /\ \E i \in EngineEvents :
         /\ events[i].type = "metadata"
         /\ The(events[i].metrics).sections_generated
                # Cardinality(SectionsOpened)

\* The content chunks of the engine and the section each is tagged with.
ContentTags(evs) ==
    LET c == SelectSeq(evs, LAMBDA ev : ev.type = "content")
    IN  [i \in DOMAIN c |-> <<c[i].content, c[i].section>>]

UnregisteredRun ==
    /\ EngineEvents # {}
    /\ \A i \in EngineEvents :
         events[i].type = "error" /\ \A j \in EngineEvents : j >= i => j = i
    /\ ~backend.raised

\* C15: a run with an unregistered model name opens no stream to a backend,
\* yields no section_start, content or metadata chunk, sends no event saying
\* that generation is complete, and ends with the job failed.
C15_UnregisteredModelFailsJob ==
    (genPc = "done" /\ UnregisteredRun) =>
        /\ backend = NoBackend
        /\ \A i \in EngineEvents :
             events[i].type \notin {"section_start", "content", "metadata"}
        /\ TerminalMetadata = {}
        /\ job.status = "failed"
        /\ dbStatus[Len(dbStatus)] = "failed"

\* The streaming route has completed a job whose model name is not registered
\* and told the consumer so.
C15_Witness ==
    /\ genPc = "done"
    /\ route = "stream"
    /\ UnregisteredRun
    /\ job.status = "completed"
    /\ dbStatus[Len(dbStatus)] = "completed"
    /\ TerminalMetadata # {}

\* C18: no step of the engine, the streaming route, the background task or
\* the progress poller sets the status cancelled, and neither does a consumer
\* that abandons the event sequence: the status is never cancelled, on the
\* object, in the row or in what the poller sends.
C18_NeverCancelledImplicitly ==
    /\ job.status # "cancelled"
    /\ \A i \in DOMAIN job.statusLog : job.statusLog[i] # "cancelled"
    /\ \A i \in DOMAIN dbStatus : dbStatus[i] # "cancelled"
    /\ polled # "cancelled"

\* The consumer has abandoned a stream that had yielded content, the job is
\* left generating and the poller has seen it so.
C18_Witness ==
    /\ genPc = "abandoned"
    /\ \E i \in EngineEvents : events[i].type = "content"
    /\ job.status = "running"
    /\ polled = "running"

\* The chunks the engine yielded in the step.
Yielded == SubSeq(events', Len(events) + 1, Len(events'))

\* C20: whenever a chunk leaves a heading line, or a line of at most 5 words
\* ending in a colon, as the last line of the text, the engine yields
\* section_end for the section that was open, if one was, and section_start
\* for the name of that line, also when that name is the open section's name.
C20_BoundaryClosesAndOpens ==
    [][(/\ genPc = "engine"
        /\ engine'.accumulated_content # engine.accumulated_content
        /\ is_section_boundary(engine'.accumulated_content)) =>
          /\ \E i \in DOMAIN Yielded :
               /\ Yielded[i].type = "section_start"
               /\ Yielded[i].section
                     = extract_section_name(engine'.accumulated_content)
          /\ engine.current_section # None =>
               \E i \in DOMAIN Yielded :
                   /\ Yielded[i].type = "section_end"
                   /\ Yielded[i].section = engine.current_section]_vars

\* The text is the line "a:" twice and the engine has opened one section.
C20_Witness ==
    /\ engine.accumulated_content = <<"a", ":", "\n", "a", ":">>
    /\ engine.current_section = Some(<<"a">>)
    /\ Cardinality(SectionsOpened) = 1
    /\ Cardinality(EventsOfType("section_end")) = 0

RECURSIVE without_heading_markers(_)
\* The line without the '#' characters it begins with.
without_heading_markers(l) ==
    IF l # <<>> /\ Head(l) = "#" THEN without_heading_markers(Tail(l)) ELSE l

\* The line without the colon it ends with, if it ends with one.
without_trailing_colon(l) ==
    IF endswith(l, <<":">>) THEN SubSeq(l, 1, Len(l) - 1) ELSE l

\* The name the heading line l stands for: leading markers and the trailing
\* colon taken away and the rest trimmed, every other character kept.
title_of(l) == strip(without_trailing_colon(without_heading_markers(l)))

\* C21: the name of a section the engine opens is the last line of the text
\* without its leading '#' markers and its trailing colon, trimmed, with every
\* other character kept: it never begins with '#' and no '#' or ':' inside
\* the title is removed.
C21_NameIsLineWithoutMarkers ==
    [][genPc = "engine" =>
         \A i \in DOMAIN Yielded :
             Yielded[i].type = "section_start" =>
                 /\ Yielded[i].section
                       = Some(title_of(last_line(engine'.accumulated_content)))
                 /\ Head(The(Yielded[i].section)) # "#"]_vars

\* The engine has opened a section whose name begins with '#'.
C21_Witness ==
    \E i \in SectionsOpened : Head(The(events[i].section)) = "#"

RECURSIVE WellBracketed(_, _)
\* The section events of evs are well bracketed when read with section open
\* (None: no section) open at the start: section_start only while no section
\* is open, section_end only for the open section, and no section open at a
\* metadata event or at the end.
WellBracketed(evs, open) ==
    IF evs = <<>> THEN open = None
    ELSE LET ev == Head(evs)
         IN  CASE ev.type = "section_start" ->
                    open = None /\ WellBracketed(Tail(evs), ev.section)
               [] ev.type = "section_end" ->
                    open = ev.section /\ open # None
                        /\ WellBracketed(Tail(evs), None)
               [] ev.type = "metadata" ->
                    open = None /\ WellBracketed(Tail(evs), open)
               [] OTHER -> WellBracketed(Tail(evs), open)

\* The chunks the engine has yielded, in order.
EngineSequence == SelectSeq(events, LAMBDA ev : ev.by = "engine")

\* C23: in the chunks of a run that completes normally every section_start is
\* followed by the section_end of that name before the next section_start and
\* before the final metadata chunk, at most one section is open at a time and
\* no section_end is yielded for a section that is not open.
C23_SectionsWellBracketed ==
    EngineCompleted => WellBracketed(EngineSequence, None)

\* A completed run in which a section was opened from the text while the
\* section_start "generation_started" had no section_end.
C23_Witness ==
    /\ EngineCompleted
    /\ SectionsOpened # {}
    /\ \A i \in EngineEvents :
         events[i].type = "section_end" =>
             events[i].section # Some(<<"generation_started">>)

\* The streams of at most MaxChunks chunks with content.
ChunkSequences == UNION {[1..n -> Chunks \ {<<>>}] : n \in 0..MaxChunks}

RECURSIVE Concat(_)
\* The text a stream of chunks adds up to.
Concat(chunks) ==
    IF chunks = <<>> THEN <<>> ELSE Head(chunks) \o Concat(Tail(chunks))

\* The names of the section_start chunks of evs, in order.
StartNames(evs) ==
    LET st == SelectSeq(evs, LAMBDA ev : ev.type = "section_start")
    IN  [i \in DOMAIN st |-> st[i].section]

\* C24: the sections the engine opens depend only on the generated text: a
\* completed run and any other stream of chunks that adds up to the same text
\* yield the same sequence of section_start names.
C24_SectionsIndependentOfChunking ==
    EngineCompleted =>
        \A cs \in ChunkSequences :
            Concat(cs) = backend.delivered =>
                StartNames(run_engine(NoEngine, cs, <<>>))
                    = StartNames(Tail(EngineSequence))

\* The text "#a:" came as "#", "a", ":" and the engine opened a and then a:,
\* while for the chunks "#", "a:" it opens a: only.
C24_Witness ==
    /\ EngineCompleted
    /\ backend.delivered = <<"#", "a", ":">>
    /\ StartNames(Tail(EngineSequence)) = <<Some(<<"a">>), Some(<<"a", ":">>)>>
    /\ StartNames(run_engine(NoEngine, << <<"#">>, <<"a", ":">> >>, <<>>))
           = <<Some(<<"a", ":">>)>>

\* The status in the job's row; "none" before the job is created.
RowStatus == IF dbStatus = <<>> THEN "none" ELSE dbStatus[Len(dbStatus)]

TerminalStatuses == {"completed", "failed", "cancelled"}

\* C25: with the generation task scheduled fairly and the backend's stream
\* finite, a job whose row says generating eventually has a row that says
\* completed, failed or cancelled, also when the consumer of the streaming
\* response stops reading.
C25_RunningReachesTerminal ==
    (RowStatus = "running") ~> (RowStatus \in TerminalStatuses)

\* The consumer has gone, the generator of the streaming route was closed and
\* the job is generating on the object and in the row.
C25_Witness ==
    /\ genPc = "abandoned"
    /\ route = "stream"
    /\ job.status = "running"
    /\ RowStatus = "running"

\* The events the route has yielded for chunks of the engine: all but the
\* route's own two, which are metadata events with a section.
ForwardedChunks ==
    SelectSeq(pipe.forwarded,
              LAMBDA e : ~(e.type = "metadata" /\ e.section # None))

\* C28: the route forwards every chunk the engine yields exactly once and in
\* the order of production; at most one event is waiting for the consumer,
\* and the engine reads from the backend only when the consumer has taken
\* every event yielded so far.
C28_NoEventDroppedEngineWaits ==
    /\ [](/\ Len(ForwardedChunks) = Len(pipe.produced)
          /\ \A i \in DOMAIN pipe.produced :
               ForwardedChunks[i] = sse_event(pipe.produced[i])
          /\ Len(pipe.forwarded) - pipe.taken <= 1)
    /\ [][pipe'.sent # pipe.sent => pipe.taken = Len(pipe.forwarded)]_vars

\* The consumer has not yet taken the section_end of a heading step: the
\* engine has a section_start and a content chunk left to yield, the backend
\* has more to give, and nothing moves until the consumer asks.
C28_Witness ==
    /\ pipe.pc = "yielded"
    /\ Len(pipe.forwarded) = pipe.taken + 1
    /\ Len(pipe.toYield) = 2
    /\ pipe.produced[Len(pipe.produced)].type = "section_end"
    /\ pipe.sent < MaxChunks
    /\ ~pipe.ended

\* C30: the tokens_used of the engine's final metadata chunk is the length of
\* the generated text divided by 4, rounded down, for every text, the empty
\* one and those of fewer than 4 characters included.
C30_TokensUsedIsLengthOver4 ==
    EngineCompleted =>
        \A i \in EngineEvents :
            events[i].type = "metadata" =>
                The(events[i].metrics).tokens_used
                    = Len(engine.accumulated_content) \div 4

\* A completed run of fewer than 4 characters whose metadata says 1 token.
C30_Witness ==
    /\ EngineCompleted
    /\ Len(engine.accumulated_content) < 4
    /\ \E i \in EngineEvents :
         /\ events[i].type = "metadata"
         /\ The(events[i].metrics).tokens_used = 1

(***************************************************************************)
(* services/llm_service.py: the selection of the most relevant emails.     *)
(* Dates are days.                                                         *)
(***************************************************************************)
MaxEmails == 3     \* the longest list of emails
MaxBudget == 3     \* the largest max_emails
MaxLater == 1      \* days between two calls of the selection

\* The day of datetime.now() and the project's date range.
SelDays == [today |-> 12, range |-> <<0, 10>>]

\* sender.split('@')[-1] if '@' in sender else ''
DomainOf(address) ==
    CASE address \in {"ann@x.io", "bob@x.io"} -> "x.io"
      [] address = "eve@y.io" -> "y.io"
      [] OTHER -> ""

\* The emails the lists are made of; date None: no date that parses.
EmailPool ==
    {[date |-> Some(10), labels |-> {"IMPORTANT"}, attachments |-> 1,
      body_length |-> 1200, thread_id |-> "t1",
      sender |-> "ann@x.io", recipient |-> "bob@x.io"],
     [date |-> Some(5), labels |-> {}, attachments |-> 0,
      body_length |-> 300, thread_id |-> "t1",
      sender |-> "eve@y.io", recipient |-> "bob@x.io"],
     [date |-> Some(40), labels |-> {"SPAM"}, attachments |-> 0,
      body_length |-> 0, thread_id |-> "",
      sender |-> "", recipient |-> ""],
     [date |-> None, labels |-> {"STARRED"}, attachments |-> 0,
      body_length |-> 600, thread_id |-> "",
      sender |-> "nodomain", recipient |-> "nodomain"]}

\* The date part of the score; a date that does not parse adds nothing.
date_score(email, range, today) ==
    IF email.date = None THEN 0
    ELSE LET d == The(email.date)
         IN  IF range # None
             THEN LET start_date == The(range)[1]
                      end_date == The(range)[2]
                      total_range_days == end_date - start_date
                  IN  IF start_date <= d /\ d <= end_date
                      THEN 3 + (IF total_range_days > 0
                                THEN (2 * (total_range_days - (end_date - d)))
                                         \div total_range_days
                                ELSE 0)
                      ELSE -2
             ELSE IF today - d <= 7 THEN 2
             ELSE IF today - d <= 30 THEN 1
             ELSE 0

\* The score the loop gives one email of the list.
email_score(email, all, range, today) ==
    LET thread_count ==
            Cardinality({i \in DOMAIN all : all[i].thread_id = email.thread_id})
        sender_domain == DomainOf(email.sender)
        recipient_domain == DomainOf(email.recipient)
    IN  date_score(email, range, today)
        + (IF "IMPORTANT" \in email.labels THEN 4 ELSE 0)
        + (IF "STARRED" \in email.labels THEN 3 ELSE 0)
        + (IF "CATEGORY_PROMOTIONS" \notin email.labels /\ "SPAM" \notin email.labels
           THEN 2 ELSE 0)
        + (IF email.attachments > 0 THEN 2 ELSE 0)
        + (IF email.body_length > 1000 THEN 3
           ELSE IF email.body_length > 500 THEN 2
           ELSE IF email.body_length > 200 THEN 1
           ELSE 0)
        + (IF email.thread_id # ""
           THEN (IF thread_count > 3 THEN 3 ELSE IF thread_count > 1 THEN 2 ELSE 0)
           ELSE 0)
        + (IF /\ email.sender # "" /\ email.recipient # ""
              /\ sender_domain = recipient_domain /\ sender_domain # ""
           THEN 2 ELSE 0)

RECURSIVE InsertBeforeEqual(_, _)
\* The insertion of a sort that is not stable: p goes in front of the pairs of
\* equal score.
InsertBeforeEqual(sorted, p) ==
    IF sorted = <<>> THEN <<p>>
    ELSE IF Head(sorted).score > p.score
    THEN <<Head(sorted)>> \o InsertBeforeEqual(Tail(sorted), p)
    ELSE <<p>> \o sorted

RECURSIVE InsertByScore(_, _)
\* p goes behind every pair whose score is not lower: the sort is stable.
InsertByScore(sorted, p) ==
    IF sorted = <<>> THEN <<p>>
    ELSE IF Head(sorted).score >= p.score
    THEN <<Head(sorted)>> \o InsertByScore(Tail(sorted), p)
    ELSE <<p>> \o sorted

RECURSIVE SortByScore(_, _)
\* scored_emails.sort(key=lambda x: x[0], reverse=True)
SortByScore(sorted, rest) ==
    IF rest = <<>> THEN sorted
    ELSE SortByScore(InsertByScore(sorted, Head(rest)), Tail(rest))

\* The selection that returns the sorted list without cutting it.
select_without_cut(all, budget, range, today) ==
    IF all = <<>> THEN <<>>
    ELSE IF Len(all) <= budget THEN all
    ELSE LET scored_emails ==
                 [i \in DOMAIN all |->
                    [score |-> email_score(all[i], all, range, today),
                     email |-> all[i]]]
             sorted == SortByScore(<<>>, scored_emails)
         IN  [i \in 1..Len(sorted) |-> sorted[i].email]

\* (The name in the source starts with an underscore.)
select_most_relevant_emails(all, budget, range, today) ==
    IF all = <<>> THEN <<>>
    ELSE IF Len(all) <= budget THEN all
    ELSE LET scored_emails ==
                 [i \in DOMAIN all |->
                    [score |-> email_score(all[i], all, range, today),
                     email |-> all[i]]]
             sorted == SortByScore(<<>>, scored_emails)
         IN  [i \in 1..budget |-> sorted[i].email]

\* The lists of at most n emails of the pool.
EmailLists(n) == UNION {[1..k -> EmailPool] : k \in 0..n}

Select ==
    /\ selected = None
    /\ selected' = Some(select_most_relevant_emails(emails, max_emails,
                            project_date_range, SelDays.today))
    /\ UNCHANGED <<emails, max_emails, project_date_range, again, tokVars,
                   raceVars, aggVars, genVars, repoVars, pipeVars>>

\* The same call once more, later days after the first: datetime.now() has
\* moved on.
SelectAgain(later) ==
    /\ selected # None
    /\ again = None
    /\ again' = Some([today |-> SelDays.today + later,
                      result |-> select_most_relevant_emails(emails, max_emails,
                                     project_date_range, SelDays.today + later)])
    /\ UNCHANGED <<emails, max_emails, project_date_range, selected, tokVars,
                   raceVars, aggVars, genVars, repoVars, pipeVars>>

SelNext ==
    \/ Select
    \/ \E later \in 0..MaxLater : SelectAgain(later)

(***************************************************************************)
(* Selection: the claim.                                                   *)
(***************************************************************************)
Occurrences(seq, e) == Cardinality({i \in DOMAIN seq : seq[i] = e})

\* C10: the selection returns exactly min(n, budget) items, and no item more
\* often than it occurs in the input (so every returned item is an input
\* item).
C10_SelectReturnsMinOfInput ==
    selected # None =>
        LET r == The(selected)
        IN  /\ Len(r) = IF Len(emails) <= max_emails THEN Len(emails)
                        ELSE max_emails
            /\ \A e \in Range(r) : Occurrences(r, e) <= Occurrences(emails, e)

\* A list longer than the budget, holding one email twice, has been cut.
C10_Witness ==
    /\ selected # None
    /\ Len(emails) > max_emails
    /\ \E i, j \in DOMAIN emails : i # j /\ emails[i] = emails[j]
    /\ Len(The(selected)) = max_emails
    /\ The(selected) # SubSeq(emails, 1, max_emails)

\* The score of the i-th email of the list the selection was called with.
ScoreAt(i) == email_score(emails[i], emails, project_date_range, SelDays.today)

\* Index i of the input comes before index j in the order of the selection:
\* the higher score first, of equal scores the one seen first.
Before(i, j) ==
    \/ ScoreAt(i) > ScoreAt(j)
    \/ ScoreAt(i) = ScoreAt(j) /\ i < j

\* C11: when the list is longer than the budget, the selection is the emails
\* at budget distinct places of the input, in descending score order with
\* equal scores in input order, and every place left out comes after every
\* place selected in that order.
C11_TopBudgetStable ==
    (selected # None /\ Len(emails) > max_emails) =>
        \E p \in [1..max_emails -> DOMAIN emails] :
            /\ The(selected) = [k \in 1..max_emails |-> emails[p[k]]]
            /\ \A k, l \in 1..max_emails : k < l => Before(p[k], p[l])
            /\ \A j \in DOMAIN emails \ Range(p) :
                 \A k \in 1..max_emails : Before(p[k], j)

\* Two different emails of equal score stood at the cut-off, and the one seen
\* first is selected and the other is not.
C11_Witness ==
    /\ selected # None
    /\ Len(emails) > max_emails
    /\ \E i, j \in DOMAIN emails :
         /\ i < j
         /\ emails[i] # emails[j]
         /\ ScoreAt(i) = ScoreAt(j)
         /\ emails[i] \in Range(The(selected))
         /\ emails[j] \notin Range(The(selected))

\* C12: a second call with the same emails, budget and date range (given or
\* not) returns the sequence the first call returned, whenever it runs.
C12_SelectIdempotent ==
    again # None => The(again).result = The(selected)

\* Without a date range, a call one day later has returned other emails.
C12_Witness ==
    /\ again # None
    /\ project_date_range = None
    /\ The(again).today > SelDays.today
    /\ The(again).result # The(selected)

\* The email's date lies inside the window.
InWindow(email, range) ==
    /\ email.date # None
    /\ The(range)[1] <= The(email.date)
    /\ The(email.date) <= The(range)[2]

\* C29: when the emails are scored with a date range, an email dated inside
\* the range gets 3 plus a bonus of 0, 1 or 2 that does not decrease toward
\* the end of the range, and an email dated outside the range gets nothing
\* for its date: no score is lowered because of a date.
C29_DateNeverLowersScore ==
    (selected # None /\ project_date_range # None /\ Len(emails) > max_emails) =>
        \A i \in DOMAIN emails :
            LET s == date_score(emails[i], project_date_range, SelDays.today)
            IN  IF InWindow(emails[i], project_date_range)
                THEN /\ s - 3 \in 0..2
                     /\ \A j \in DOMAIN emails :
                          (/\ InWindow(emails[j], project_date_range)
                           /\ The(emails[j].date) >= The(emails[i].date)) =>
                              date_score(emails[j], project_date_range,
                                         SelDays.today) >= s
                ELSE s = 0

\* The emails were scored with a date range, and one dated after the range
\* got -2 for its date.
C29_Witness ==
    /\ selected # None
    /\ project_date_range # None
    /\ Len(emails) > max_emails
    /\ \E i \in DOMAIN emails :
         /\ emails[i].date # None
         /\ The(emails[i].date) > The(project_date_range)[2]
         /\ date_score(emails[i], project_date_range, SelDays.today) = -2

(***************************************************************************)
(* repositories/user_repository.py: the user table.  google_id and email   *)
(* are unique columns.                                                     *)
(***************************************************************************)
GoogleIds == {"g1", "g2"}
UserEmails == {"e1", "e2"}
UserNames == {"n1", "n2"}
AvatarUrls == {None, Some("a1")}

NoRepoCall ==
    [op |-> "none", google_id |-> "none", email |-> "none", name |-> "none",
     avatar_url |-> None, found |-> FALSE, raised |-> FALSE]

\* select(User).where(User.google_id == google_id), then first()
get_user_by_google_id(table, google_id) ==
    LET matching == SelectSeq(table, LAMBDA row : row.google_id = google_id)
    IN  IF matching = <<>> THEN None ELSE Some(Head(matching))

\* select(User).where(User.email == email), then first()
get_user_by_email(table, email) ==
    LET matching == SelectSeq(table, LAMBDA row : row.email = email)
    IN  IF matching = <<>> THEN None ELSE Some(Head(matching))

\* The unique constraints of the google_id and email columns: a commit that
\* would leave two rows with one value raises.
violates_unique(table) ==
    \E i, j \in DOMAIN table :
        /\ i # j
        /\ \/ table[i].google_id = table[j].google_id
           \/ table[i].email = table[j].email

\* find_or_create_user that returns the user it finds as it is.
find_without_update(table, google_id, email, name, avatar_url, lookup, commit) ==
    LET row == [google_id |-> google_id, email |-> email, name |-> name,
                avatar_url |-> avatar_url]
        existing == IF lookup THEN get_user_by_google_id(table, google_id) ELSE None
        created == Append(table, row)
    IN  IF existing # None
        THEN [users |-> table, found |-> TRUE, raised |-> FALSE]
        ELSE [users |-> IF commit /\ ~violates_unique(created) THEN created
                        ELSE table,
              found |-> FALSE,
              raised |-> ~commit \/ violates_unique(created)]

\* find_or_create_user: the table afterwards and whether the call raised.
\* lookup: the query of get_user_by_google_id does not fail (a failing query
\* returns None); commit: session.commit() does not fail for another reason
\* than a unique constraint.  A failed commit is rolled back.
find_or_create_user(table, google_id, email, name, avatar_url, lookup, commit) ==
    LET row == [google_id |-> google_id, email |-> email, name |-> name,
                avatar_url |-> avatar_url]
        existing == IF lookup THEN get_user_by_google_id(table, google_id) ELSE None
        updated == [i \in DOMAIN table |->
                      IF table[i].google_id = google_id THEN row ELSE table[i]]
        created == Append(table, row)
        next == IF existing # None THEN updated ELSE created
    IN  [users |-> IF commit /\ ~violates_unique(next) THEN next ELSE table,
         found |-> existing # None,
         raised |-> ~commit \/ violates_unique(next)]

RepoIdle ==
    /\ users = <<>>
    /\ repoLast = NoRepoCall

FindOrCreateUser(google_id, email, name, avatar_url, lookup, commit) ==
    /\ LET r == find_or_create_user(users, google_id, email, name, avatar_url,
                                    lookup, commit)
       IN  /\ users' = r.users
           /\ repoLast' = [op |-> "find_or_create_user", google_id |-> google_id,
                           email |-> email, name |-> name,
                           avatar_url |-> avatar_url, found |-> r.found,
                           raised |-> r.raised]
    /\ UNCHANGED <<tokVars, raceVars, aggVars, genVars, selVars, pipeVars>>

\* update_user on a user that a lookup returned, its name changed.
UpdateUser(google_id, name, commit) ==
    /\ get_user_by_google_id(users, google_id) # None
    /\ LET existing == The(get_user_by_google_id(users, google_id))
       IN  /\ name # existing.name
           /\ users' = IF commit
                       THEN [i \in DOMAIN users |->
                               IF users[i].google_id = google_id
                               THEN [existing EXCEPT !.name = name] ELSE users[i]]
                       ELSE users
           /\ repoLast' = [op |-> "update_user", google_id |-> google_id,
                           email |-> existing.email, name |-> name,
                           avatar_url |-> existing.avatar_url, found |-> TRUE,
                           raised |-> ~commit]
    /\ UNCHANGED <<tokVars, raceVars, aggVars, genVars, selVars, pipeVars>>

RepoNext ==
    \/ \E google_id \in GoogleIds, email \in UserEmails, name \in UserNames,
          avatar_url \in AvatarUrls, lookup \in BOOLEAN, commit \in BOOLEAN :
         FindOrCreateUser(google_id, email, name, avatar_url, lookup, commit)
    \/ \E google_id \in GoogleIds, name \in UserNames, commit \in BOOLEAN :
         UpdateUser(google_id, name, commit)

\* C19: there is never more than one user of a google_id; after a call of
\* find_or_create_user that returned, or an update_user with a changed name
\* that returned, there is exactly one user of that google_id, it carries the
\* email, name and avatar of that call, and get_user_by_google_id and
\* get_user_by_email return it.
C19_FindOrCreateIdempotent ==
    /\ \A g \in GoogleIds :
         Cardinality({i \in DOMAIN users : users[i].google_id = g}) <= 1
    /\ (repoLast.op # "none" /\ ~repoLast.raised) =>
         LET row == [google_id |-> repoLast.google_id, email |-> repoLast.email,
                     name |-> repoLast.name, avatar_url |-> repoLast.avatar_url]
         IN  /\ Cardinality({i \in DOMAIN users : users[i] = row}) = 1
             /\ get_user_by_google_id(users, row.google_id) = Some(row)
             /\ get_user_by_email(users, row.email) = Some(row)

\* A repeated call for a google_id has found the user, next to another user,
\* and returned.
C19_Witness ==
    /\ repoLast.op = "find_or_create_user"
    /\ repoLast.found
    /\ ~repoLast.raised
    /\ Len(users) = 2
    /\ users[1].google_id = repoLast.google_id

(***************************************************************************)
(* The specifications.                                                     *)
(***************************************************************************)
\* The state after construction: no user has logged in, nothing is running.
TokIdle ==
    /\ now = 0
    /\ user = NewUser
    /\ db = NewUser
    /\ nextTok = 1
    /\ last = NoLast

RaceIdle ==
    /\ streamPc = "idle"
    /\ basis = <<>>

AggIdle ==
    /\ aggPc = "idle"
    /\ aggIn = NoAggIn
    /\ aggQueue = <<>>
    /\ result = NoResult
    /\ raised = FALSE
    /\ aggLog = <<>>
    /\ calls = <<>>

GenIdle ==
    /\ genPc = "idle"
    /\ route = "none"
    /\ job = NoJob
    /\ dbStatus = <<>>
    /\ backend = NoBackend
    /\ engine = NoEngine
    /\ events = <<>>
    /\ polled = "none"

SelIdle ==
    /\ emails = <<>>
    /\ max_emails = 1
    /\ project_date_range = None
    /\ selected = None
    /\ again = None

PipeIdle == pipe = NoPipe

Init ==
    TokIdle /\ RaceIdle /\ AggIdle /\ GenIdle /\ SelIdle /\ RepoIdle /\ PipeIdle

\* Any list of emails, any budget above zero, with or without a date range.
SelInit ==
    /\ TokIdle /\ RaceIdle /\ AggIdle /\ GenIdle /\ RepoIdle /\ PipeIdle
    /\ emails \in EmailLists(MaxEmails)
    /\ max_emails \in 1..MaxBudget
    /\ project_date_range \in {None, Some(SelDays.range)}
    /\ selected = None
    /\ again = None

SpecTok == Init /\ [][TokNext]_vars

SpecSync == Init /\ [][SyncNext]_vars

SpecRace == Init /\ [][RaceNext]_vars

SpecAgg == Init /\ [][AggNext]_vars

SpecOrd == Init /\ [][OrdNext]_vars

SpecGen == Init /\ [][GenNext]_vars

\* Generation with the generation task scheduled fairly.
SpecGenLive == Init /\ [][GenNext]_vars /\ WF_vars(GenTaskStep)

SpecPipe == Init /\ [][PipeNext]_vars

SpecSel == SelInit /\ [][SelNext]_vars

SpecRepo == Init /\ [][RepoNext]_vars

====
